---- MODULE Spec2Model ----
(***************************************************************************)
(* A model of smart-edit's script generation                               *)
(* (src/smart_edit/script_generation.py): one invocation of                *)
(* SmartScriptGenerator.generate_script_from_prompt, with the delegated    *)
(* (OpenAI) call as a nondeterministic reply and the rule-based fallback   *)
(* computed as the code computes it.                                       *)
(*                                                                         *)
(* Strings the code inspects (segment text, user prompt, reply content)    *)
(* are sequences of one-character strings, so that strip(), lower(),       *)
(* split() and the substring tests are computed and not assumed.  Times    *)
(* are whole seconds.  The 1.1 and 1.2 factors of the fallback are exact   *)
(* rationals (11/10, 12/10).                                               *)
(*                                                                         *)
(* Two pure functions of the generator are exercised on their own, each    *)
(* under its own specification: the segment sampler                        *)
(* (_select_important_segments_intelligently, SamplerSpec), whose stride   *)
(* is computed in IEEE-754 double arithmetic as Python computes it, and    *)
(* the fallback's keep test (_should_keep_segment_fallback, FilterSpec).   *)
(* CutSpec is the same invocation on one transcript whose segments have    *)
(* unequal lengths.                                                        *)
(*                                                                         *)
(* The other modules have a specification each: ExportSpec for             *)
(* XMLExporter.export_script (src/smart_edit/xml_export.py), AngleSpec for *)
(* CameraAngleAssigner._assign_smart (src/smart_edit/angle_assignment.py), *)
(* PipelineSpec for SmartEditPipeline.process_project and export_project   *)
(* (src/smart_edit/core/pipeline.py), and WindowSpec for the main          *)
(* window's video list and its transcription thread                        *)
(* (src/smart_edit/ui/main_window.py), whose steps interleave with the     *)
(* window's handlers.                                                      *)
(***************************************************************************)
EXTENDS Integers, Sequences, FiniteSets, TLC

VARIABLES
    transcriptions,           \* argument: list of TranscriptionResult
    user_prompt,              \* argument: the free-text goal
    target_duration_minutes,  \* argument: the target, in minutes
    ai_enabled,               \* SmartScriptGenerator.ai_enabled
    pc,                       \* where the invocation stands
    ai_reply,                 \* what the delegated call produced (None before)
    calls,                    \* the strategies run so far, in order
    script,                   \* the GeneratedScript being returned (None before)
    error,                    \* the exception leaving the call ("none" if none)
    segment_pool,             \* sampler argument all_segments: the pool
    segment_cap,              \* sampler argument max_segments: the cap K
    selected_segments,        \* what the sampler returned (<<>> before)
    sampler_pc,               \* where the sampler's exercise stands
    segment_text,             \* keep test argument: the candidate's text
    keep,                     \* what the keep test answered ("none" before)
    filter_pc,                \* where the keep test's exercise stands
    xml_script,               \* export_script argument: script.segments
    video_paths,              \* export_script argument: the video files
    fps,                      \* XMLExporter.fps
    xml_file,                 \* the XML written to output_path (None before)
    exported,                 \* what export_script returned
    xml_pc,                   \* where the export stands
    edit_cuts,                \* _assign_smart argument: edit_script.cuts
    camera_ids,               \* _assign_smart argument: the camera ids
    config,                   \* CameraAngleAssigner.config
    switch_log,               \* one entry per kept cut: the switch made there
    angle_pc,                 \* where the assignment stands
    project,                  \* SmartEditPipeline.current_project
    progress_callback,        \* whether the pipeline has a progress callback
    step_results,             \* the steps run by process_project, with results
    processing_result,        \* the ProcessingResult returned last
    pipeline_pc,              \* where the pipeline stands
    video_files,              \* SmartEditMainWindow.video_files
    transcription_results,    \* SmartEditMainWindow.transcription_results
    script_button,            \* whether 'Create Script' is enabled
    transcribe_button,        \* whether 'Transcribe Videos' is enabled
    threads,                  \* the transcription threads started so far
    after_queue,              \* callbacks handed to root.after, in order
    window_pc                 \* whether the window exists

scriptVars == <<transcriptions, user_prompt, target_duration_minutes,
                ai_enabled, pc, ai_reply, calls, script, error>>

samplerVars == <<segment_pool, segment_cap, selected_segments, sampler_pc>>

filterVars == <<segment_text, keep, filter_pc>>

earlierVars == <<scriptVars, samplerVars, filterVars>>

exportVars == <<xml_script, video_paths, fps, xml_file, exported, xml_pc>>

angleVars == <<edit_cuts, camera_ids, config, switch_log, angle_pc>>

pipelineVars == <<project, progress_callback, step_results,
                  processing_result, pipeline_pc>>

windowVars == <<video_files, transcription_results, script_button,
                transcribe_button, threads, after_queue, window_pc>>

laterVars == <<exportVars, angleVars, pipelineVars, windowVars>>

vars == <<earlierVars, laterVars>>

\* The script variable before anything is returned.
NoScript == [t |-> "none"]
\* The ai_reply variable before the delegated call has answered.
NoReply == [kind |-> "none"]
\* The xml_file variable while nothing is written.
NoFile == [kind |-> "none"]
\* The pipeline's current_project while it is None.
NoProject == [loaded |-> FALSE]
\* The processing_result variable before anything is returned.
NoResult == [success |-> FALSE, stage |-> "none", error |-> "None"]

\* ------------------------------------------------------------------ bounds

\* Segments in the whole pool (all transcripts together).
MaxPool == 3
\* Transcripts (video files) in one call.
MaxTranscripts == 2
\* Target durations tried: -1 .. MaxTarget minutes.
MaxTarget == 1
\* Entries in the delegated reply's selected_segments list.
MaxReplyLen == 2
\* Candidates in a sampler pool whose content types are all tried.
MaxSamplePool == 5
\* Caps tried on those pools: 1 .. MaxSampleCap.
MaxSampleCap == 4
\* Candidates in a sampler pool of untyped segments (stride arithmetic).
MaxStridePool == 30
\* Caps tried on those pools: 1 .. MaxStrideCap.
MaxStrideCap == 22
\* Plain words after the filler words of a text given to the keep test.
MaxPlainWords == 7
\* Segments of the one transcript of a call on segments of unequal lengths.
MaxCutPool == 3
\* Segments in an exported script.
MaxExportSegments == 3
\* Video files handed to an export.
MaxVideoPaths == 2
\* Cuts in an edit script handed to the camera assignment.
MaxCuts == 4
\* Cameras: 2 .. MaxCameras.
MaxCameras == 3
\* max_segments_per_camera tried: 1 .. MaxPerCamera.
MaxPerCamera == 3
\* Video files in a project.
MaxVideoFiles == 2
\* Video files the user can pick in the main window.
MaxPicks == 2
\* Transcription threads started in one session of the main window.
MaxStarts == 2

\* ------------------------------------------------------- Python strings

Whitespace == {" ", "\t", "\n", "\r"}

UpperCase ==
    <<"A","B","C","D","E","F","G","H","I","J","K","L","M",
      "N","O","P","Q","R","S","T","U","V","W","X","Y","Z">>

LowerCase ==
    <<"a","b","c","d","e","f","g","h","i","j","k","l","m",
      "n","o","p","q","r","s","t","u","v","w","x","y","z">>

\* str.lower(), one character
LowerChar(c) ==
    IF \E i \in 1..Len(UpperCase) : UpperCase[i] = c
    THEN LowerCase[CHOOSE i \in 1..Len(UpperCase) : UpperCase[i] = c]
    ELSE c

\* str.lower()
Lower(s) == [i \in 1..Len(s) |-> LowerChar(s[i])]

\* str.strip(): leading and trailing whitespace removed
Strip(s) ==
    LET solid == {i \in 1..Len(s) : s[i] \notin Whitespace}
    IN  IF solid = {} THEN <<>>
        ELSE LET lo == CHOOSE i \in solid : \A j \in solid : i <= j
                 hi == CHOOSE i \in solid : \A j \in solid : j <= i
             IN  SubSeq(s, lo, hi)

\* len(s.split()): the number of maximal runs of non-whitespace
WordCount(s) ==
    Cardinality({i \in 1..Len(s) :
        /\ s[i] \notin Whitespace
        /\ (i = 1 \/ s[i-1] \in Whitespace)})

\* `w in s` for strings
Contains(s, w) ==
    \E i \in 0..(Len(s) - Len(w)) : SubSeq(s, i + 1, i + Len(w)) = w

\* s.endswith(c) for a one-character c
EndsWith(s, c) == Len(s) > 0 /\ s[Len(s)] = c

\* ------------------------------------------- _should_keep_segment_fallback

FillerWords ==
    << <<"u","m">>, <<"u","h">>, <<"l","i","k","e">>,
       <<"y","o","u"," ","k","n","o","w">>, <<"s","o">>,
       <<"w","e","l","l">> >>

ImportantWords ==
    << <<"i","m","p","o","r","t","a","n","t">>, <<"k","e","y">>,
       <<"m","a","i","n">>, <<"f","i","r","s","t">>,
       <<"s","e","c","o","n","d">>, <<"n","e","x","t">>,
       <<"f","i","n","a","l","l","y">>,
       <<"c","o","n","c","l","u","s","i","o","n">> >>

\* sum(1 for word in [...] if word in text)
FillerHits(text) ==
    Cardinality({k \in 1..Len(FillerWords) : Contains(text, FillerWords[k])})

Max(a, b) == IF a >= b THEN a ELSE b

\* The keep rule of the fallback, on a segment's raw text.
\* filler_ratio > 0.3 is hits / max(1, words) > 3/10.
ShouldKeepSegmentFallback(raw) ==
    LET text == Strip(Lower(raw))
        words == WordCount(text)
    IN  IF Len(text) < 10 THEN FALSE
        ELSE IF FillerHits(text) * 10 > 3 * Max(1, words) THEN FALSE
        ELSE IF EndsWith(text, "?") THEN TRUE
        ELSE IF \E k \in 1..Len(ImportantWords) :
                    Contains(text, ImportantWords[k]) THEN TRUE
        ELSE IF 5 <= words /\ words <= 50 THEN TRUE
        ELSE words > 3

\* -------------------------------------------------------------- dicts

\* d[key] = value on a dict
SetItem(d, key, value) == (key :> value) @@ d

\* d.update(other)
Update(d, other) == other @@ d

\* A quotient the code computes in floating point, kept exact.
Ratio(n, d) == [num |-> n, den |-> d]

\* -------------------------------------------------- the segments tried

\* " This is the first point ": kept (whitespace around it, as Whisper emits)
TextPoint ==
    <<" ","T","h","i","s"," ","i","s"," ","t","h","e"," ","f","i","r","s","t",
      " ","p","o","i","n","t"," ">>

\* "Now we look at more details": a text the delegated reply may carry
TextDetail ==
    <<"N","o","w"," ","w","e"," ","l","o","o","k"," ","a","t"," ","m","o","r",
      "e"," ","d","e","t","a","i","l","s">>

\* "Okay.": rejected as too short
TextShort == <<"O","k","a","y",".">>

\* The transcript segments tried: a text and a length in seconds.
SegmentKinds ==
    {[text |-> TextPoint, seconds |-> 35],
     [text |-> TextShort, seconds |-> 35]}

\* Transcript segments of unequal lengths, both of which the keep rule keeps.
CutKinds ==
    {[text |-> TextPoint, seconds |-> 35],
     [text |-> TextDetail, seconds |-> 10]}

SegmentTexts == {k.text : k \in SegmentKinds \cup CutKinds}

\* _should_keep_segment_fallback(segment), tabulated over the texts tried
KeepTable == [t \in SegmentTexts |-> ShouldKeepSegmentFallback(t)]

\* segment.text.strip(), tabulated over the texts tried
StripTable == [t \in SegmentTexts |-> Strip(t)]

\* ------------------------------------------------------ _generate_fallback

\* sum(seg.end_time - seg.start_time for seg in segs)
SumDurations(segs) ==
    LET S[i \in 0..Len(segs)] ==
            IF i = 0 THEN 0
            ELSE S[i-1] + (segs[i].end_time - segs[i].start_time)
    IN  S[Len(segs)]

\* A faulty variant: the content taken from the lowered text of the keep rule.
FallbackContentLowered(text) == Strip(Lower(text))

\* segment.text.strip(), the content of a fallback ScriptSegment
FallbackContent(text) == StripTable[text]

\* The ScriptSegment built for a kept transcript segment (0-based indexes).
FallbackSegment(segment, video_idx, seg_idx) ==
    [start_time |-> segment.start,
     end_time |-> segment.end,
     content |-> FallbackContent(segment.text),
     video_index |-> video_idx,
     original_segment_id |-> seg_idx,
     keep |-> TRUE,
     reason |-> "Fallback selection"]

\* The script line appended for a kept segment: **[m:ss]** text
FallbackLine(segment) ==
    [part |-> "line",
     minutes |-> segment.start \div 60,
     seconds |-> segment.start % 60,
     text |-> StripTable[segment.text]]

\* The inner loop over one transcript: the ScriptSegments it contributes.
KeptInVideo(transcription, video_idx) ==
    LET segs == transcription.segments
        K[i \in 0..Len(segs)] ==
            IF i = 0 THEN <<>>
            ELSE IF KeepTable[segs[i].text]
                 THEN Append(K[i-1], FallbackSegment(segs[i], video_idx, i - 1))
                 ELSE K[i-1]
    IN  K[Len(segs)]

\* The inner loop over one transcript: the script lines it contributes.
LinesInVideo(transcription) ==
    LET segs == transcription.segments
        L[i \in 0..Len(segs)] ==
            IF i = 0 THEN <<>>
            ELSE IF KeepTable[segs[i].text]
                 THEN Append(L[i-1], FallbackLine(segs[i]))
                 ELSE L[i-1]
    IN  L[Len(segs)]

\* The outer loop: all_segments before the duration cut.
FallbackKept(trs) ==
    LET A[v \in 0..Len(trs)] ==
            IF v = 0 THEN <<>>
            ELSE A[v-1] \o KeptInVideo(trs[v], v - 1)
    IN  A[Len(trs)]

\* The outer loop: script_text_parts.
FallbackTextParts(trs, prompt) ==
    LET P[v \in 0..Len(trs)] ==
            IF v = 0 THEN << [part |-> "header", prompt |-> prompt] >>
            ELSE P[v-1]
                 \o (IF Len(trs) > 1
                     THEN << [part |-> "video", number |-> v] >>
                     ELSE <<>>)
                 \o LinesInVideo(trs[v])
    IN  P[Len(trs)]

\* The duration cut: when the kept total exceeds 120% of the target, keep the
\* first max(1, int(len * (target * 1.1) / total)) segments.
FallbackTruncate(all_segments, target_duration) ==
    LET target_seconds == target_duration * 60
        current_duration == SumDurations(all_segments)
    IN  IF all_segments # <<>> /\ current_duration * 10 > target_seconds * 12
        THEN LET keep_count ==
                     Max(1, (Len(all_segments) * target_seconds * 11)
                                \div (current_duration * 10))
             IN  SubSeq(all_segments, 1, keep_count)
        ELSE all_segments

\* A faulty variant: the duration summed before the cut.
FallbackEstimateBeforeCut(kept, truncated) == SumDurations(kept)

\* estimated_duration: summed over all_segments as it stands after the cut.
FallbackEstimate(kept, truncated) == SumDurations(truncated)

\* sum(t.metadata.get('total_duration', 0) for t in transcriptions)
OriginalDuration(trs) ==
    LET D[v \in 0..Len(trs)] ==
            IF v = 0 THEN 0 ELSE D[v-1] + trs[v].total_duration
    IN  D[Len(trs)]

CompressionRatio(estimated, original) ==
    IF original > 0 THEN Ratio(estimated, original) ELSE Ratio(0, 1)

GenerateFallback(trs, prompt, target_duration) ==
    LET kept == FallbackKept(trs)
        all_segments == FallbackTruncate(kept, target_duration)
        estimated_duration == FallbackEstimate(kept, all_segments)
        total_duration == OriginalDuration(trs)
    IN  [full_text |-> [t |-> "parts", parts |-> FallbackTextParts(trs, prompt)],
         segments |-> all_segments,
         title |-> "Video Script (Auto-Generated)",
         target_duration_minutes |-> target_duration,
         estimated_duration_seconds |-> estimated_duration,
         original_duration_seconds |-> total_duration,
         user_prompt |-> prompt,
         metadata |->
            [video_count |-> Len(trs),
             compression_ratio |-> CompressionRatio(estimated_duration, total_duration),
             fallback_used |-> TRUE]]

\* ---------------------------------------- values of the parsed JSON reply

JNum(n) == [t |-> "num", n |-> n]
JStr(s) == [t |-> "str", s |-> s]
JNull == [t |-> "null"]
JDict(d) == [t |-> "dict", d |-> d]
JList(l) == [t |-> "list", l |-> l]

\* The outcome of evaluating a Python expression: a value or a raised exception.
Ok(v) == [ok |-> TRUE, v |-> v]
Raise(exc) == [ok |-> FALSE, exc |-> exc]

\* x[key]
GetItem(x, key) ==
    IF x.t = "dict"
    THEN IF key \in DOMAIN x.d THEN Ok(x.d[key]) ELSE Raise("KeyError")
    ELSE Raise("TypeError")

Digits == <<"0","1","2","3","4","5","6","7","8","9">>

IsDigit(c) == \E i \in 1..Len(Digits) : Digits[i] = c

DigitValue(c) == (CHOOSE i \in 1..Len(Digits) : Digits[i] = c) - 1

\* The number a string of decimal digits denotes.
ParseDigits(s) ==
    LET V[i \in 0..Len(s)] ==
            IF i = 0 THEN 0 ELSE V[i-1] * 10 + DigitValue(s[i])
    IN  V[Len(s)]

\* float(x) and int(x), on the values modelled: a number converts, a string
\* converts when it is decimal digits (surrounding whitespace allowed), any
\* other string is a ValueError and any other value a TypeError.
ToNumber(x) ==
    IF x.t = "num" THEN Ok(x.n)
    ELSE IF x.t = "str"
         THEN LET body == Strip(x.s)
              IN  IF body # <<>> /\ \A i \in 1..Len(body) : IsDigit(body[i])
                  THEN Ok(ParseDigits(body))
                  ELSE Raise("ValueError")
    ELSE Raise("TypeError")

\* x.strip()
StripValue(x) ==
    IF x.t = "str" THEN Ok(Strip(x.s)) ELSE Raise("AttributeError")

\* selected.get("reason", "Selected by AI")
ReasonOf(selected) ==
    IF "reason" \in DOMAIN selected.d
    THEN selected.d["reason"] ELSE "Selected by AI"

\* ---------------------------------------------------- _convert_ai_response

\* A faulty variant: selected_segments not required (it would default to []).
RequiredKeysWithoutSegments == <<"title", "script_text">>

required_keys == <<"title", "script_text", "selected_segments">>

\* float(r) / int(r) of an evaluated subscript
ThenNumber(r) == IF r.ok THEN ToNumber(r.v) ELSE r

\* r.strip() of an evaluated subscript
ThenStrip(r) == IF r.ok THEN StripValue(r.v) ELSE r

\* The first exception among argument outcomes evaluated left to right.
FirstFailure(args) ==
    args[CHOOSE i \in 1..Len(args) :
            ~args[i].ok /\ \A j \in 1..(i-1) : args[j].ok]

\* ScriptSegment(start_time=..., end_time=..., content=..., video_index=...,
\* original_segment_id=..., keep=True, reason=...) from its evaluated arguments
SegmentFromArgs(args, selected) ==
    IF \E i \in 1..Len(args) : ~args[i].ok
    THEN FirstFailure(args)
    ELSE Ok([start_time |-> args[1].v,
             end_time |-> args[2].v,
             content |-> args[3].v,
             video_index |-> args[4].v,
             original_segment_id |-> args[5].v,
             keep |-> TRUE,
             reason |-> ReasonOf(selected)])

\* The ScriptSegment(...) construction for one entry: its arguments are
\* evaluated in order and the first exception raised ends it.
ConvertEntry(selected) ==
    SegmentFromArgs(<<ThenNumber(GetItem(selected, "start_time")),
                      ThenNumber(GetItem(selected, "end_time")),
                      ThenStrip(GetItem(selected, "content")),
                      ThenNumber(GetItem(selected, "video")),
                      ThenNumber(GetItem(selected, "segment_id"))>>,
                    selected)

\* except (KeyError, ValueError, TypeError): the entry is skipped
SkippedExceptions == {"KeyError", "ValueError", "TypeError"}

\* A faulty variant: the segment inserted at the front of the list.
ConvertStepPrepending(acc, r) ==
    IF ~acc.ok THEN acc
    ELSE IF r.ok
    THEN Ok([segments |-> <<r.v>> \o acc.v.segments,
             estimated |-> acc.v.estimated + (r.v.end_time - r.v.start_time)])
    ELSE IF r.exc \in SkippedExceptions THEN acc
    ELSE r

\* One pass of the loop body: append and accumulate, skip, or let the
\* exception leave the loop.
ConvertStep(acc, r) ==
    IF ~acc.ok THEN acc
    ELSE IF r.ok
    THEN Ok([segments |-> Append(acc.v.segments, r.v),
             estimated |-> acc.v.estimated + (r.v.end_time - r.v.start_time)])
    ELSE IF r.exc \in SkippedExceptions THEN acc
    ELSE r

\* The loop over selected_segments: the segments appended and the duration
\* accumulated, or the exception that left the loop.
ConvertEntries(items) ==
    LET C[i \in 0..Len(items)] ==
            IF i = 0 THEN Ok([segments |-> <<>>, estimated |-> 0])
            ELSE ConvertStep(C[i-1], ConvertEntry(items[i]))
    IN  C[Len(items)]

\* `for selected in ai_result.get("selected_segments", [])`
SelectedSegments(ai_result) ==
    IF "selected_segments" \notin DOMAIN ai_result.d THEN Ok(<<>>)
    ELSE IF ai_result.d["selected_segments"].t = "list"
    THEN Ok(ai_result.d["selected_segments"].l)
    ELSE Raise("TypeError")

ThenConvertEntries(r) == IF r.ok THEN ConvertEntries(r.v) ELSE r

\* The GeneratedScript(...) construction after the loop.
AIScript(conv, text, title, original_duration, trs, prompt, target_duration) ==
    IF ~conv.ok THEN conv
    ELSE IF ~text.ok THEN text
    ELSE IF ~title.ok THEN title
    ELSE Ok([full_text |-> text.v,
             segments |-> conv.v.segments,
             title |-> title.v,
             target_duration_minutes |-> target_duration,
             estimated_duration_seconds |-> conv.v.estimated,
             original_duration_seconds |-> original_duration,
             user_prompt |-> prompt,
             metadata |->
                [ai_model |-> "gpt-4o-mini",
                 video_count |-> Len(trs),
                 compression_ratio |->
                     CompressionRatio(conv.v.estimated, original_duration)]])

ConvertAIResponse(ai_result, trs, prompt, target_duration) ==
    IF ai_result.t # "dict" THEN Raise("TypeError")
    ELSE IF \E k \in 1..Len(required_keys) :
                required_keys[k] \notin DOMAIN ai_result.d
    THEN Raise("ValueError")
    ELSE AIScript(ThenConvertEntries(SelectedSegments(ai_result)),
                  GetItem(ai_result, "script_text"),
                  GetItem(ai_result, "title"),
                  OriginalDuration(trs), trs, prompt, target_duration)

\* ------------------------------------------------------- _generate_with_ai

\* except Exception as e: raise Exception(...)
Rewrapped(r) == IF r.ok THEN r ELSE Raise("Exception")

\* The body of the try block: the request, json.loads and the conversion.
\* Every exception raised in it is caught and re-raised as a plain Exception.
GenerateWithAI(reply, trs, prompt, target_duration) ==
    IF reply.kind \in {"api_error", "not_json"} THEN Raise("Exception")
    ELSE Rewrapped(ConvertAIResponse(reply.json, trs, prompt, target_duration))

\* --------------------------------------------- generate_script_from_prompt

\* A faulty variant: the prompt tested without strip().
ValidationErrorNoStrip(trs, prompt, target_duration) ==
    IF trs = <<>> THEN "No transcriptions provided"
    ELSE IF prompt = <<>> THEN "User prompt cannot be empty"
    ELSE IF target_duration <= 0 THEN "Target duration must be positive"
    ELSE "none"

\* The three input checks, in the code's order: the ValueError message, or
\* "none" when the inputs pass.
ValidationError(trs, prompt, target_duration) ==
    IF trs = <<>> THEN "No transcriptions provided"
    ELSE IF Strip(prompt) = <<>> THEN "User prompt cannot be empty"
    ELSE IF target_duration <= 0 THEN "Target duration must be positive"
    ELSE "none"

\* A faulty variant: only ValueError handled.
CaughtOnlyValueError(exc) == exc = "ValueError"

\* `except Exception` around the delegated strategy: every exception modelled
\* is an Exception.
CaughtAtSelector(exc) == TRUE

\* A faulty variant: the delegated strategy tried again.
RetryDelegated == "ai"

\* What the except branch runs next.
AfterAIFailure == "fallback"

\* sum(len(t.segments) for t in transcriptions)
PoolSize(trs) ==
    LET N[v \in 0..Len(trs)] ==
            IF v = 0 THEN 0 ELSE N[v-1] + Len(trs[v].segments)
    IN  N[Len(trs)]

\* A faulty variant: ai_used says whether the delegated capability is
\* available, not whether it produced the script.
FinishFlaggedByCapability(s, used, trs, enabled) ==
    [s EXCEPT !.metadata =
        Update(SetItem(s.metadata, "ai_used", enabled),
               [model_used |-> IF enabled THEN "gpt-4o-mini" ELSE "fallback",
                total_original_segments |-> PoolSize(trs),
                segments_in_script |-> Len(s.segments)])]

\* script.metadata["ai_used"] = used, then the final metadata.update(...)
\* (generation_time_seconds, a wall-clock reading, is left out).
Finish(s, used, trs, enabled) ==
    [s EXCEPT !.metadata =
        Update(SetItem(s.metadata, "ai_used", used),
               [model_used |-> IF enabled THEN "gpt-4o-mini" ELSE "fallback",
                total_original_segments |-> PoolSize(trs),
                segments_in_script |-> Len(s.segments)])]

\* ------------------------------------------- Python floats in the sampler

\* step_size = total_segments / max_segments and i * step_size are Python
\* floats: IEEE-754 doubles, each operation rounded to nearest, ties to even,
\* at 53 significant binary digits.  A double x >= 1 is held in fixed point,
\* [whole, frac]: its integer part and its 52 binary digits after the point
\* as four limbs of 13 digits, most significant first.  That is exact for
\* every double from 1 up to 2^13, which covers the stride of every pool of
\* fewer than 2^13 candidates.
MantissaBits == 53

FractionBits == MantissaBits - 1

LimbBits == FractionBits \div 4

LimbCount == FractionBits \div LimbBits

LimbBase == 2^LimbBits

\* the number of binary digits of a whole number from 1 up to 2^13 - 1
BitLength(n) ==
    CHOOSE len \in 1..LimbBits : 2^(len - 1) <= n /\ n < 2^len

\* what is left of r/d, for 0 <= r < d, once j limbs after the point are taken
RemAfter(r, d, j) ==
    LET R[k \in 0..j] == IF k = 0 THEN r ELSE (R[k-1] * LimbBase) % d
    IN  R[j]

\* the limbs of r/d after the point, for 0 <= r < d
FracLimbs(r, d) ==
    [j \in 1..LimbCount |-> (RemAfter(r, d, j - 1) * LimbBase) \div d]

Compare(a, b) == IF a > b THEN 1 ELSE IF a = b THEN 0 ELSE -1

\* How the digits a rounding drops compare with half a unit of the last digit
\* kept: dropped digits of the last limb (low holds them), then rest/d.
TailAgainstHalf(low, dropped, rest, d) ==
    IF dropped = 0 THEN Compare(2 * rest, d)
    ELSE IF low # 2^(dropped - 1) THEN Compare(low, 2^(dropped - 1))
    ELSE IF rest > 0 THEN 1 ELSE 0

\* round to nearest, ties to even: whether the kept digits go up by one unit
RoundsUp(frac, dropped, rest, d) ==
    \/ TailAgainstHalf(frac[LimbCount] % 2^dropped, dropped, rest, d) = 1
    \/ /\ TailAgainstHalf(frac[LimbCount] % 2^dropped, dropped, rest, d) = 0
       /\ (frac[LimbCount] \div 2^dropped) % 2 = 1

Truncated(frac, dropped) ==
    [frac EXCEPT ![LimbCount] = @ - (@ % 2^dropped)]

\* what is carried into limb j (0: the integer part) when amount is added to
\* the last limb
CarryInto(frac, j, amount) ==
    LET A[k \in j..LimbCount] ==
            IF k = LimbCount THEN amount
            ELSE (frac[k+1] + A[k+1]) \div LimbBase
    IN  A[j]

Plus(whole, frac, amount) ==
    [whole |-> whole + CarryInto(frac, 0, amount),
     frac |-> [j \in 1..LimbCount |->
                  (frac[j] + CarryInto(frac, j, amount)) % LimbBase]]

RoundedAt(whole, frac, dropped, rest, d) ==
    IF RoundsUp(frac, dropped, rest, d)
    THEN Plus(whole, Truncated(frac, dropped), 2^dropped)
    ELSE [whole |-> whole, frac |-> Truncated(frac, dropped)]

\* The double nearest to whole + 0.frac + (rest/d units of the last digit of
\* frac): the integer part takes BitLength(whole) of the 53 digits, the rest
\* of frac is dropped.
Rounded(whole, frac, rest, d) ==
    RoundedAt(whole, frac, BitLength(whole) - 1, rest, d)

\* n / d for ints n >= d >= 1: Python's true division, correctly rounded
TrueDivide(n, d) ==
    Rounded(n \div d, FracLimbs(n % d, d), RemAfter(n % d, d, LimbCount), d)

\* what multiplying the limbs by i carries into limb j (0: the integer part)
TimesCarry(frac, i, j) ==
    LET C[k \in j..LimbCount] ==
            IF k = LimbCount THEN 0
            ELSE (i * frac[k+1] + C[k+1]) \div LimbBase
    IN  C[j]

\* i * x for an int i >= 1 and a double x: the exact product, rounded
FloatTimes(i, x) ==
    Rounded(i * x.whole + TimesCarry(x.frac, i, 0),
            [j \in 1..LimbCount |->
                (i * x.frac[j] + TimesCarry(x.frac, i, j)) % LimbBase],
            0, 1)

\* int(x) for a double x >= 1
IntOf(x) == x.whole

\* ------------------------------------------------------------ the sampler

\* One entry of all_segments as _generate_with_ai builds it (round(x, 2) of
\* a whole number of seconds is that number).
PoolEntry(video_idx, seg_idx, segment) ==
    [video |-> video_idx,
     segment_id |-> seg_idx,
     start |-> segment.start,
     end |-> segment.end,
     text |-> Strip(segment.text),
     duration |-> segment.end - segment.start,
     content_type |-> segment.content_type]

\* all_segments: every segment of every video, video after video
AllSegments(videos) ==
    LET P[v \in 0..Len(videos)] ==
            IF v = 0 THEN <<>>
            ELSE P[v-1] \o [k \in 1..Len(videos[v]) |->
                               PoolEntry(v - 1, k - 1, videos[v][k])]
    IN  P[Len(videos)]

\* A faulty variant: the stride in floor arithmetic on a rounded-down step.
SegmentIndexWholeStep(i, total_segments, max_segments) ==
    i * (total_segments \div max_segments)

\* segment_index = int(i * step_size), step_size = total_segments / max_segments
SegmentIndex(i, total_segments, max_segments) ==
    IF i = 0 THEN 0
    ELSE IntOf(FloatTimes(i, TrueDivide(total_segments, max_segments)))

\* the indices the loop over range(max_segments) visits, in order
StrideIndices(total_segments, max_segments) ==
    [i \in 1..max_segments |->
        SegmentIndex(i - 1, total_segments, max_segments)]

Inbounds(indices, total_segments) ==
    SelectSeq(indices, LAMBDA index : index < total_segments)

\* the loop of lines 120-125: the candidates at the in-bounds indices
StrideSelection(all_segments, max_segments) ==
    [k \in 1..Len(Inbounds(StrideIndices(Len(all_segments), max_segments),
                           Len(all_segments))) |->
        all_segments[Inbounds(StrideIndices(Len(all_segments), max_segments),
                              Len(all_segments))[k] + 1]]

\* selected_segments[0] = all_segments[0]; selected_segments[-1] =
\* all_segments[-1], when both the pool and the cap exceed 2
WithFirstAndLast(selection, all_segments, max_segments) ==
    IF Len(all_segments) > 2 /\ max_segments > 2
    THEN [selection EXCEPT ![1] = all_segments[1],
                           ![Len(selection)] = all_segments[Len(all_segments)]]
    ELSE selection

critical_types == {"main_point", "topic_introduction", "conclusion"}

filler_types == {"greeting", "filler"}

\* the same text and the same start: the test that finds a selected
\* candidate's place in the pool
SameTextAndStart(seg, orig_seg) ==
    seg.text = orig_seg.text /\ seg.start = orig_seg.start

\* the first pool index (from 0) whose candidate has seg's text and start
OriginalIndex(seg, all_segments) ==
    (CHOOSE i \in 1..Len(all_segments) :
        /\ SameTextAndStart(seg, all_segments[i])
        /\ \A j \in 1..(i-1) : ~SameTextAndStart(seg, all_segments[j])) - 1

SelectedIndices(current_selection, all_segments) ==
    {OriginalIndex(current_selection[k], all_segments) :
        k \in {k \in 1..Len(current_selection) :
                 \E i \in 1..Len(all_segments) :
                    SameTextAndStart(current_selection[k], all_segments[i])}}

\* missing_critical: the pool indices (from 0), in order, of the critical
\* candidates that the selection is not found to hold
MissingCritical(current_selection, all_segments) ==
    SelectSeq([k \in 1..Len(all_segments) |-> k - 1],
              LAMBDA i :
                 /\ i \notin SelectedIndices(current_selection, all_segments)
                 /\ all_segments[i + 1].content_type \in critical_types)

\* replaceable_indices: the places (from 0), in order, of the selection
\* that hold filler
ReplaceableIndices(current_selection) ==
    SelectSeq([k \in 1..Len(current_selection) |-> k - 1],
              LAMBDA j : current_selection[j + 1].content_type \in filler_types)

Min(a, b) == IF a <= b THEN a ELSE b

MaxReplacements(missing, replaceable, max_segments) ==
    Min(Min(Len(missing), Len(replaceable)), max_segments \div 4)

\* the replacement loop: the i-th replaceable place takes the i-th missing
\* critical candidate
Replaced(current_selection, all_segments, missing, replaceable, count) ==
    [k \in 1..Len(current_selection) |->
        IF \E i \in 1..count : replaceable[i] = k - 1
        THEN all_segments[missing[CHOOSE i \in 1..count :
                                     replaceable[i] = k - 1] + 1]
        ELSE current_selection[k]]

ReplacedUpTo(current_selection, all_segments, max_segments, missing, replaceable) ==
    Replaced(current_selection, all_segments, missing, replaceable,
             MaxReplacements(missing, replaceable, max_segments))

\* _boost_important_content_types
BoostImportantContentTypes(current_selection, all_segments, max_segments) ==
    ReplacedUpTo(current_selection, all_segments, max_segments,
                 MissingCritical(current_selection, all_segments),
                 ReplaceableIndices(current_selection))

\* A faulty variant: a pool of exactly max_segments is sampled too.
WithinCapStrict(all_segments, max_segments) ==
    Len(all_segments) < max_segments

WithinCap(all_segments, max_segments) ==
    Len(all_segments) <= max_segments

\* _select_important_segments_intelligently
SelectImportantSegmentsIntelligently(all_segments, max_segments) ==
    IF WithinCap(all_segments, max_segments)
    THEN all_segments
    ELSE BoostImportantContentTypes(
             WithFirstAndLast(StrideSelection(all_segments, max_segments),
                              all_segments, max_segments),
             all_segments, max_segments)

\* ------------------------------------------------------------ XMLExporter

\* Times are counted in ticks of 1/16 s: every such time and its product with
\* a frame rate is exact in a Python float, so int(t * fps) is the floor below.
TicksPerSecond == 16

\* int(seconds * self.fps) for a time that is not negative
Frames(ticks, rate) == (ticks * rate) \div TicksPerSecond

\* end > start and (end - start) > 0.1
ValidTiming(seg) ==
    /\ seg.end_time > seg.start_time
    /\ (seg.end_time - seg.start_time) * 10 > TicksPerSecond

\* the segments marked to keep whose timing is valid
KeptAndValid(segments) ==
    SelectSeq(segments, LAMBDA seg : seg.keep /\ ValidTiming(seg))

GetValidSegments(segments) ==
    IF KeptAndValid(segments) = <<>> /\ segments # <<>>
    THEN segments
    ELSE KeptAndValid(segments)

\* the largest end_time of the segments, 0 at least
RECURSIVE MaxEndTime(_)
MaxEndTime(segments) ==
    IF segments = <<>> THEN 0
    ELSE Max(Head(segments).end_time, MaxEndTime(Tail(segments)))

EmittedAlways(duration_frames) == TRUE

\* `if duration_frames <= 0: continue`
Emitted(duration_frames) == duration_frames > 0

\* the <clipitem> written for segment i at timeline_position
ClipItem(i, seg, timeline_position, rate) ==
    [id |-> i,
     duration |-> Frames(seg.end_time, rate) - Frames(seg.start_time, rate),
     start |-> timeline_position,
     end |-> timeline_position
               + Frames(seg.end_time, rate) - Frames(seg.start_time, rate),
     in |-> Frames(seg.start_time, rate),
     out |-> Frames(seg.end_time, rate)]

\* the clips the loop over segments i.. writes, starting at timeline_position
RECURSIVE ClipItems(_, _, _, _)
ClipItems(segments, i, timeline_position, rate) ==
    IF i > Len(segments) THEN <<>>
    ELSE IF Emitted(Frames(segments[i].end_time, rate)
                       - Frames(segments[i].start_time, rate))
         THEN <<ClipItem(i, segments[i], timeline_position, rate)>>
                 \o ClipItems(segments, i + 1,
                              timeline_position
                                 + Frames(segments[i].end_time, rate)
                                 - Frames(segments[i].start_time, rate),
                              rate)
         ELSE ClipItems(segments, i + 1, timeline_position, rate)

\* timeline_position after the loop
TimelineEnd(clips) == IF clips = <<>> THEN 0 ELSE clips[Len(clips)].end

CreateSingleCamXml(segments, video_path, rate) ==
    [kind |-> "single",
     file |-> video_path,
     source_duration |->
         Frames(MaxEndTime(segments) + 300 * TicksPerSecond, rate),
     video_clips |-> ClipItems(segments, 1, 0, rate),
     audio_clips |-> ClipItems(segments, 1, 0, rate),
     duration |-> TimelineEnd(ClipItems(segments, 1, 0, rate))]

\* max_duration, 600 s when no segment ends after 0
MulticamDuration(segments) ==
    IF MaxEndTime(segments) <= 0 THEN 600 * TicksPerSecond
    ELSE MaxEndTime(segments)

\* the file definitions: one for each video file that exists
CreateMulticamXml(segments, paths, rate) ==
    [kind |-> "multicam",
     files |-> SelectSeq([k \in 1..Len(paths) |->
                             [id |-> k, exists |-> paths[k].exists]],
                         LAMBDA f : f.exists),
     video_clips |-> <<[id |-> 1,
                        duration |-> Frames(MulticamDuration(segments), rate),
                        start |-> 0,
                        end |-> Frames(MulticamDuration(segments), rate),
                        in |-> 0,
                        out |-> Frames(MulticamDuration(segments), rate)]>>,
     duration |-> Frames(MulticamDuration(segments), rate)]

\* xml_content of export_script, for inputs that pass its two checks
XmlContent(segments, paths, rate) ==
    IF Len(paths) = 1
    THEN CreateSingleCamXml(GetValidSegments(segments), paths[1], rate)
    ELSE CreateMulticamXml(GetValidSegments(segments), paths, rate)

\* export_script raises ValueError before any XML is generated
ExportRejected(segments, paths) ==
    paths = <<>> \/ GetValidSegments(segments) = <<>>

\* ------------------------------------------------------ _assign_smart

\* cut.action in [EditAction.KEEP, EditAction.SPEED_UP]
IsKept(cut) == cut.action \in {"keep", "speed_up"}

\* positions in edit_script.cuts of the kept cuts, in order
RECURSIVE KeptPositions(_, _)
KeptPositions(cuts, k) ==
    IF k > Len(cuts) THEN <<>>
    ELSE (IF IsKept(cuts[k]) THEN <<k>> ELSE <<>>)
            \o KeptPositions(cuts, k + 1)

kept_cuts(cuts) ==
    [j \in 1..Len(KeptPositions(cuts, 1)) |-> cuts[KeptPositions(cuts, 1)[j]]]

\* the loop's variables before the first kept cut
SmartStart ==
    [camera_index |-> 0,
     segments_on_camera |-> 0,
     last_speaker |-> "None",
     last_switch_position |-> -999,
     assigned |-> <<>>,
     switches |-> <<>>]

MaxSegmentsExceeded(cfg, st) ==
    st.segments_on_camera > cfg.max_segments_per_camera

\* reason 3: too many segments on the same camera
MaxSegmentsReached(cfg, st) ==
    st.segments_on_camera >= cfg.max_segments_per_camera

\* the if/elif chain: the reason for a switch at kept cut i (counted from 0)
\* of n, "" when there is none. i > n * 0.3 is decided as i * 10 > n * 3,
\* which differs from the float comparison for no n below 10.
SwitchReason(cfg, st, cut, i, n) ==
    IF /\ cfg.prefer_speaker_switches
       /\ cut.speaker # st.last_speaker
       /\ st.last_speaker # "None"
    THEN "speaker_change"
    ELSE IF /\ cfg.prefer_content_switches
            /\ cut.content_type
                  \in {"topic_introduction", "conclusion", "main_point"}
            /\ st.segments_on_camera > 0
    THEN "content_importance"
    ELSE IF MaxSegmentsReached(cfg, st)
    THEN "max_segments_reached"
    ELSE IF /\ st.segments_on_camera >= 2
            /\ i * 10 > n * 3
            /\ i - st.last_switch_position >= 2
    THEN "variety"
    ELSE ""

\* ping-pong avoidance applied to the reason
FinalReason(cfg, st, reason, i) ==
    IF /\ reason # ""
       /\ cfg.avoid_ping_pong
       /\ i - st.last_switch_position < 2
       /\ reason # "speaker_change"
    THEN "ping_pong_avoided"
    ELSE reason

should_switch(reason) == reason \notin {"", "ping_pong_avoided"}

\* the loop's variables after kept cut i, given the final reason
SmartStep(st, cut, i, cameras, reason) ==
    [camera_index |->
         IF should_switch(reason)
         THEN (st.camera_index + 1) % Len(cameras)
         ELSE st.camera_index,
     segments_on_camera |->
         IF should_switch(reason) THEN 1 ELSE st.segments_on_camera + 1,
     last_speaker |-> cut.speaker,
     last_switch_position |->
         IF should_switch(reason) THEN i ELSE st.last_switch_position,
     assigned |->
         Append(st.assigned,
                cameras[(IF should_switch(reason)
                         THEN (st.camera_index + 1) % Len(cameras)
                         ELSE st.camera_index) + 1]),
     switches |-> Append(st.switches, reason)]

\* the loop over kept_cuts[i..], i counted from 0
RECURSIVE SmartLoop(_, _, _, _, _)
SmartLoop(cfg, kept, cameras, st, i) ==
    IF i >= Len(kept) THEN st
    ELSE SmartLoop(cfg, kept, cameras,
                   SmartStep(st, kept[i + 1], i, cameras,
                             FinalReason(cfg, st,
                                 SwitchReason(cfg, st, kept[i + 1], i, Len(kept)),
                                 i)),
                   i + 1)

\* edit_script.cuts with camera_id set on every kept cut
WithCameras(cuts, assigned) ==
    [k \in 1..Len(cuts) |->
        IF IsKept(cuts[k])
        THEN [cuts[k] EXCEPT
                 !.camera_id =
                     assigned[CHOOSE j \in 1..Len(assigned) :
                                 KeptPositions(cuts, 1)[j] = k]]
        ELSE cuts[k]]

AssignSmartLoop(cfg, cuts, cameras) ==
    SmartLoop(cfg, kept_cuts(cuts), cameras, SmartStart, 0)

\* ------------------------------------------------------ SmartEditPipeline

\* The functions the pipeline calls (transcribe_video, generate_script with a
\* configuration, assign_camera_angles, export_single_cam_xml,
\* export_multicam_xml, the progress callback) are taken as calls that return
\* or raise; the pipeline's own statements are modelled as written.

\* SmartEditProject.is_multicam
is_multicam(p) == Len(p.video_files) > 1 \/ p.project_type = "multicam"

ErrorResult(stage, exception) ==
    [success |-> FALSE, stage |-> stage, error |-> exception]

SuccessResult(stage) ==
    [success |-> TRUE, stage |-> stage, error |-> "None"]

\* what _update_progress writes into the project, before the callback runs
UpdateProgress(p, percent, stage) ==
    [p EXCEPT !.stage = stage, !.progress_percent = percent]

\* the ways the progress callback can end: it returns, or (when there is
\* one) it raises
CallbackEnds(callback) == IF callback THEN {"returns", "raises"} ELSE {"returns"}

\* the camera ids _process_angle_assignment collects
CameraIdsOf(p) ==
    SelectSeq(p.video_files, LAMBDA vf : vf.camera_id)

\* _process_transcription: the project and the result it can end with
ProcessTranscriptionEnds(p, callback) ==
    {[project |-> UpdateProgress(p, 10, "transcribing"),
      result |-> ErrorResult("transcribing", "CallbackError")] :
        c \in CallbackEnds(callback) \ {"returns"}}
    \cup
    (IF ~is_multicam(p) /\ p.video_files = <<>>
     THEN {[project |-> UpdateProgress(p, 10, "transcribing"),
            result |-> ErrorResult("transcribing", "IndexError")]}
     ELSE {[project |-> UpdateProgress(p, 10, "transcribing"),
            result |-> ErrorResult("transcribing", "TranscriptionError")]}
          \cup
          {[project |->
               UpdateProgress([p EXCEPT !.transcription_result = TRUE],
                              30, "transcribed"),
            result |-> IF c = "returns"
                       THEN SuccessResult("transcribed")
                       ELSE ErrorResult("transcribing", "CallbackError")] :
              c \in CallbackEnds(callback)})

\* _process_script_generation: the project and the result it can end with
ProcessScriptGenerationEnds(p, callback) ==
    {[project |-> UpdateProgress(p, 50, "generating_script"),
      result |-> ErrorResult("generating_script", "CallbackError")] :
        c \in CallbackEnds(callback) \ {"returns"}}
    \cup
    (IF ~p.transcription_result
     THEN {[project |-> UpdateProgress(p, 50, "generating_script"),
            result |-> ErrorResult("generating_script", "ValueError")]}
     ELSE {[project |-> UpdateProgress(p, 50, "generating_script"),
            result |-> ErrorResult("generating_script", "ScriptError")]}
          \cup
          {[project |->
               UpdateProgress([p EXCEPT !.edit_script = TRUE],
                              70, "script_generated"),
            result |-> IF c = "returns"
                       THEN SuccessResult("script_generated")
                       ELSE ErrorResult("generating_script", "CallbackError")] :
              c \in CallbackEnds(callback)})

\* _process_angle_assignment: the project and the result it can end with
ProcessAngleAssignmentEnds(p, callback) ==
    {[project |-> UpdateProgress(p, 85, "assigning_angles"),
      result |-> ErrorResult("assigning_angles", "CallbackError")] :
        c \in CallbackEnds(callback) \ {"returns"}}
    \cup
    (IF ~p.edit_script \/ CameraIdsOf(p) = <<>>
     THEN {[project |-> UpdateProgress(p, 85, "assigning_angles"),
            result |-> ErrorResult("assigning_angles", "ValueError")]}
     ELSE {[project |-> UpdateProgress(p, 85, "assigning_angles"),
            result |-> ErrorResult("assigning_angles", "AssignmentError")]}
          \cup
          {[project |->
               UpdateProgress([p EXCEPT !.angles_assigned = TRUE],
                              90, "ready_for_review"),
            result |-> IF c = "returns"
                       THEN SuccessResult("ready_for_review")
                       ELSE ErrorResult("assigning_angles", "CallbackError")] :
              c \in CallbackEnds(callback)})

\* An exception handler that reports FAILED through _update_progress and
\* then returns an error result; the callback raising once more leaves the
\* call with that exception.
FailedEnds(p, callback, stage, exception, with_message) ==
    {[project |-> IF c = "returns" /\ with_message
                  THEN [UpdateProgress(p, 0, "failed")
                           EXCEPT !.error_message = TRUE]
                  ELSE UpdateProgress(p, 0, "failed"),
      raised |-> c = "raises",
      result |-> ErrorResult(stage, exception)] :
        c \in CallbackEnds(callback)}

Returning(p, result) == [project |-> p, raised |-> FALSE, result |-> result]

\* the end of process_project after its steps: the last progress report and
\* the success result, or the handler of lines 135-143
MarkReadyEnds(p, callback) ==
    {Returning(UpdateProgress(p, 100, "ready_for_review"),
               SuccessResult("ready_for_review"))}
    \cup
    UNION {FailedEnds(UpdateProgress(p, 100, "ready_for_review"), callback,
                      "failed", "CallbackError", TRUE) :
              c \in CallbackEnds(callback) \ {"returns"}}

\* what the export function of the chosen format does
ExportCalls(options) ==
    IF options.format = "premiere_xml" THEN {"True", "False", "raises"}
    ELSE IF options.format = "json" THEN {"True", "raises"}
    ELSE {"unsupported"}

\* export_project on a loaded project that has an edit script
ExportTryEnds(p, callback, options) ==
    UNION {FailedEnds(UpdateProgress(p, 95, "exporting"), callback,
                      "exporting", "CallbackError", FALSE) :
              c \in CallbackEnds(callback) \ {"returns"}}
    \cup
    (IF ~options.valid \/ (~options.output_path /\ p.video_files = <<>>)
     THEN FailedEnds(UpdateProgress(p, 95, "exporting"), callback,
                     "exporting", "ValueError", FALSE)
     ELSE UNION {
            IF call = "True"
            THEN {Returning(UpdateProgress(p, 100, "completed"),
                            SuccessResult("completed"))}
                 \cup
                 UNION {FailedEnds(UpdateProgress(p, 100, "completed"),
                                   callback, "exporting", "CallbackError",
                                   FALSE) :
                           c \in CallbackEnds(callback) \ {"returns"}}
            ELSE FailedEnds(UpdateProgress(p, 95, "exporting"), callback,
                            "exporting",
                            IF call = "False" THEN "RuntimeError"
                            ELSE IF call = "unsupported" THEN "ValueError"
                            ELSE "ExportError",
                            FALSE) :
            call \in ExportCalls(options)})

ExportProjectEnds(p, callback, options) ==
    IF ~p.loaded \/ ~p.edit_script
    THEN {Returning(p, ErrorResult("failed", "ValueError"))}
    ELSE ExportTryEnds(p, callback, options)

\* ------------------------------------------------------------ the inputs

\* A transcript of the given kinds laid end to end from 0:00, as the
\* transcription collaborator produces them (chronological, end > start).
TranscriptOf(kinds) ==
    LET E[i \in 0..Len(kinds)] ==
            IF i = 0 THEN 0 ELSE E[i-1] + kinds[i].seconds
    IN  [segments |-> [i \in 1..Len(kinds) |->
                          [start |-> E[i-1], end |-> E[i], text |-> kinds[i].text]],
         total_duration |-> E[Len(kinds)]]

KindLists == UNION {[1..n -> SegmentKinds] : n \in 0..MaxPool}

\* The ways to cut a list of n segments into k consecutive transcripts: the
\* k-1 cut positions, in order.
Cuts(n, k) ==
    {c \in [1..(k-1) -> 0..n] : \A i \in 1..(k-2) : c[i] <= c[i+1]}

\* The k transcripts a list of kinds is cut into.
CutInto(kinds, k, c) ==
    [v \in 1..k |->
        TranscriptOf(SubSeq(kinds,
                            (IF v = 1 THEN 0 ELSE c[v-1]) + 1,
                            IF v = k THEN Len(kinds) ELSE c[v]))]

\* Every list of at most MaxTranscripts transcripts holding at most MaxPool
\* segments in all (a transcript may be empty), and the empty list.
TranscriptionInputs ==
    {<<>>} \cup
    UNION {UNION {{CutInto(kinds, k, c) : c \in Cuts(Len(kinds), k)} :
                    k \in 1..MaxTranscripts} :
             kinds \in KindLists}

PromptInputs == {<<>>, <<" ">>, <<"t","e","s","t">>}

TargetInputs == (-1)..MaxTarget

\* Entries of selected_segments the delegated capability may send.
EntryGoodA ==
    JDict([video |-> JNum(0), segment_id |-> JNum(0), start_time |-> JNum(0),
           end_time |-> JNum(35), content |-> JStr(TextPoint)])

EntryGoodB ==
    JDict([video |-> JNum(0), segment_id |-> JNum(1), start_time |-> JNum(35),
           end_time |-> JNum(45), content |-> JStr(TextDetail),
           reason |-> "Adds detail"])

\* no "end_time": KeyError
EntryMissingKey ==
    JDict([video |-> JNum(0), segment_id |-> JNum(0), start_time |-> JNum(0),
           content |-> JStr(TextPoint)])

\* "start_time": "abc": ValueError
EntryBadValue ==
    JDict([video |-> JNum(0), segment_id |-> JNum(0),
           start_time |-> JStr(<<"a","b","c">>),
           end_time |-> JNum(35), content |-> JStr(TextPoint)])

\* "video": null: TypeError
EntryNullField ==
    JDict([video |-> JNull, segment_id |-> JNum(0), start_time |-> JNum(0),
           end_time |-> JNum(35), content |-> JStr(TextPoint)])

\* "content": 7: AttributeError
EntryNumberContent ==
    JDict([video |-> JNum(0), segment_id |-> JNum(0), start_time |-> JNum(0),
           end_time |-> JNum(35), content |-> JNum(7)])

\* an entry that is a string, not a record: TypeError
EntryNotRecord == JStr(<<"o","o","p","s">>)

\* an entry that ends before it starts
EntryReversed ==
    JDict([video |-> JNum(0), segment_id |-> JNum(1), start_time |-> JNum(35),
           end_time |-> JNum(20), content |-> JStr(TextDetail)])

EntryPool ==
    {EntryGoodA, EntryGoodB, EntryMissingKey, EntryBadValue, EntryNullField,
     EntryNumberContent, EntryNotRecord}

ReplyLists == UNION {[1..n -> EntryPool] : n \in 0..MaxReplyLen}

JsonReply(json) == [kind |-> "json", json |-> json]

FullReply(items) ==
    JsonReply(JDict([title |-> "AI title", script_text |-> "AI narrative",
                     selected_segments |-> items]))

\* What the delegated call can come back with: a transport failure or
\* timeout, text that is not JSON, JSON lacking one top-level key, JSON that
\* is not an object, a selected_segments that is not a list, a full reply
\* with an entry that ends before it starts, or a full reply of pool entries.
Replies ==
    {[kind |-> "api_error"], [kind |-> "not_json"],
     JsonReply(JNull),
     JsonReply(JDict([script_text |-> "AI narrative",
                      selected_segments |-> JList(<<EntryGoodA>>)])),
     JsonReply(JDict([title |-> "AI title",
                      selected_segments |-> JList(<<EntryGoodA>>)])),
     JsonReply(JDict([title |-> "AI title", script_text |-> "AI narrative"])),
     FullReply(JNull),
     FullReply(JList(<<EntryReversed>>)),
     FullReply(JList(<<EntryGoodA, EntryReversed>>))}
    \cup {FullReply(JList(l)) : l \in ReplyLists}

\* Inputs of the sampler.  A video's segments follow one another from 0:00,
\* two seconds each, and say what their content type makes them say, so two
\* videos that open alike hold candidates with the same text and start.
SamplerTypes == {"greeting", "main_point", "unknown"}

TextOfType(type) ==
    IF type = "greeting" THEN <<"H", "i", " ">>
    ELSE IF type = "main_point" THEN <<"K", "e", "y">>
    ELSE <<"a", "n", "d">>

TypedVideo(types) ==
    [k \in 1..Len(types) |->
        [start |-> 2 * (k - 1), end |-> 2 * k,
         text |-> TextOfType(types[k]), content_type |-> types[k]]]

TypeLists == UNION {[1..n -> SamplerTypes] : n \in 1..MaxSamplePool}

\* every typed pool of one video, or of two videos (neither empty)
TypedPools ==
    {AllSegments(<<TypedVideo(types)>>) : types \in TypeLists}
    \cup UNION {{AllSegments(<<TypedVideo(SubSeq(types, 1, c)),
                               TypedVideo(SubSeq(types, c + 1, Len(types)))>>) :
                    c \in 1..(Len(types) - 1)} :
                 types \in TypeLists}

\* one video of n segments none of which carries a content type
UntypedPools ==
    {AllSegments(<<TypedVideo([k \in 1..n |-> "unknown"])>>) :
        n \in 2..MaxStridePool}

SamplerInputs ==
    (TypedPools \X (1..MaxSampleCap)) \cup (UntypedPools \X (1..MaxStrideCap))

\* Inputs of the keep test: some of the one-word stoplist entries, each once,
\* then perhaps an importance keyword, then plain words (all long or all
\* short), then perhaps a question mark.
OneWordFillers ==
    << <<"u","m">>, <<"u","h">>, <<"l","i","k","e">>, <<"s","o">>,
       <<"w","e","l","l">> >>

PlainWord == <<"p","l","a","n","s">>

ShortWord == <<"a">>

KeywordWord == <<"F","i","r","s","t">>

\* " ".join(words)
Join(words) ==
    LET J[k \in 0..Len(words)] ==
            IF k = 0 THEN <<>>
            ELSE IF k = 1 THEN words[1]
            ELSE J[k-1] \o <<" ">> \o words[k]
    IN  J[Len(words)]

WordsOfText(fillers, keyword, plain, word) ==
    SelectSeq(OneWordFillers, LAMBDA w : w \in fillers)
       \o (IF keyword THEN <<KeywordWord>> ELSE <<>>)
       \o [k \in 1..plain |-> word]

FilterTexts ==
    {Join(WordsOfText(fillers, keyword, plain, word)) \o mark :
        fillers \in SUBSET {OneWordFillers[k] : k \in 1..Len(OneWordFillers)},
        keyword \in BOOLEAN,
        plain \in 0..MaxPlainWords,
        word \in {PlainWord, ShortWord},
        mark \in {<<>>, <<"?">>}}

\* --------------------------------------------------------- the behaviour

\* The sampler and the keep test are not being exercised.
SamplerUnused ==
    /\ segment_pool = <<>>
    /\ segment_cap = 0
    /\ selected_segments = <<>>
    /\ sampler_pc = "unused"

FilterUnused ==
    /\ segment_text = <<>>
    /\ keep = "none"
    /\ filter_pc = "unused"

\* No invocation of generate_script_from_prompt is under way.
ScriptUnused ==
    /\ transcriptions = <<>>
    /\ user_prompt = <<>>
    /\ target_duration_minutes = 0
    /\ ai_enabled = FALSE
    /\ pc = "unused"
    /\ ai_reply = NoReply
    /\ calls = <<>>
    /\ script = NoScript
    /\ error = "none"

\* No export is under way.
ExportUnused ==
    /\ xml_script = <<>>
    /\ video_paths = <<>>
    /\ fps = 0
    /\ xml_file = NoFile
    /\ exported = FALSE
    /\ xml_pc = "unused"

\* No camera assignment is under way.
AngleUnused ==
    /\ edit_cuts = <<>>
    /\ camera_ids = <<>>
    /\ config = [max_segments_per_camera |-> 0]
    /\ switch_log = <<>>
    /\ angle_pc = "unused"

\* No pipeline exists.
PipelineUnused ==
    /\ project = NoProject
    /\ progress_callback = FALSE
    /\ step_results = <<>>
    /\ processing_result = NoResult
    /\ pipeline_pc = "unused"

\* No main window exists.
WindowUnused ==
    /\ video_files = <<>>
    /\ transcription_results = <<>>
    /\ script_button = FALSE
    /\ transcribe_button = FALSE
    /\ threads = <<>>
    /\ after_queue = <<>>
    /\ window_pc = "unused"

LaterUnused == ExportUnused /\ AngleUnused /\ PipelineUnused /\ WindowUnused

EarlierUnused == ScriptUnused /\ SamplerUnused /\ FilterUnused

Init ==
    /\ transcriptions \in TranscriptionInputs
    /\ user_prompt \in PromptInputs
    /\ target_duration_minutes \in TargetInputs
    /\ ai_enabled \in BOOLEAN
    /\ pc = "start"
    /\ ai_reply = NoReply
    /\ calls = <<>>
    /\ script = NoScript
    /\ error = "none"
    /\ SamplerUnused
    /\ FilterUnused
    /\ LaterUnused

\* generate_script_from_prompt up to the choice of strategy
Validate ==
    /\ pc = "start"
    /\ LET err == ValidationError(transcriptions, user_prompt,
                                  target_duration_minutes)
       IN  IF err # "none"
           THEN pc' = "raised" /\ error' = "ValueError"
           ELSE /\ pc' = IF ai_enabled THEN "ai" ELSE "fallback"
                /\ error' = error
    /\ UNCHANGED <<transcriptions, user_prompt, target_duration_minutes,
                   ai_enabled, ai_reply, calls, script>>
    /\ UNCHANGED <<samplerVars, filterVars, laterVars>>

\* What generate_script_from_prompt does with the outcome r of
\* _generate_with_ai: complete and return the script, or handle the exception.
AfterDelegated(r) ==
    IF r.ok
    THEN /\ script' = Finish(r.v, TRUE, transcriptions, ai_enabled)
         /\ pc' = "returned"
         /\ error' = error
    ELSE IF CaughtAtSelector(r.exc)
    THEN /\ pc' = AfterAIFailure
         /\ UNCHANGED <<script, error>>
    ELSE /\ pc' = "raised"
         /\ error' = r.exc
         /\ script' = script

\* the try branch: _generate_with_ai is called and answers
DelegatedStrategy ==
    /\ pc = "ai"
    /\ \E reply \in Replies :
         /\ ai_reply' = reply
         /\ calls' = Append(calls, "ai")
         /\ AfterDelegated(GenerateWithAI(reply, transcriptions, user_prompt,
                                          target_duration_minutes))
    /\ UNCHANGED <<transcriptions, user_prompt, target_duration_minutes,
                   ai_enabled>>
    /\ UNCHANGED <<samplerVars, filterVars, laterVars>>

\* _generate_fallback, from the except branch or from the else branch, and
\* the return
FallbackStrategy ==
    /\ pc = "fallback"
    /\ calls' = Append(calls, "fallback")
    /\ script' = Finish(GenerateFallback(transcriptions, user_prompt,
                                         target_duration_minutes),
                        FALSE, transcriptions, ai_enabled)
    /\ pc' = "returned"
    /\ UNCHANGED <<transcriptions, user_prompt, target_duration_minutes,
                   ai_enabled, ai_reply, error>>
    /\ UNCHANGED <<samplerVars, filterVars, laterVars>>

Next == Validate \/ DelegatedStrategy \/ FallbackStrategy

Spec == Init /\ [][Next]_vars

\* -------------------------- a call on segments of unequal lengths

\* One transcript of at most MaxCutPool segments, 35 or 10 seconds each.
CutTranscriptionInputs ==
    {<<TranscriptOf(kinds)>> :
        kinds \in UNION {[1..n -> CutKinds] : n \in 1..MaxCutPool}}

CutInit ==
    /\ transcriptions \in CutTranscriptionInputs
    /\ user_prompt \in PromptInputs
    /\ target_duration_minutes \in TargetInputs
    /\ ai_enabled \in BOOLEAN
    /\ pc = "start"
    /\ ai_reply = NoReply
    /\ calls = <<>>
    /\ script = NoScript
    /\ error = "none"
    /\ SamplerUnused
    /\ FilterUnused
    /\ LaterUnused

CutSpec == CutInit /\ [][Next]_vars

\* ------------------------------------------- the sampler on its own

SamplerInit ==
    /\ \E input \in SamplerInputs :
          /\ segment_pool = input[1]
          /\ segment_cap = input[2]
    /\ selected_segments = <<>>
    /\ sampler_pc = "start"
    /\ ScriptUnused
    /\ FilterUnused
    /\ LaterUnused

\* _select_important_segments_intelligently(all_segments, max_segments)
Select ==
    /\ sampler_pc = "start"
    /\ selected_segments' =
          SelectImportantSegmentsIntelligently(segment_pool, segment_cap)
    /\ sampler_pc' = "selected"
    /\ UNCHANGED <<segment_pool, segment_cap, scriptVars, filterVars, laterVars>>

\* a second call, on what the first returned
SelectAgain ==
    /\ sampler_pc = "selected"
    /\ segment_pool' = selected_segments
    /\ selected_segments' =
          SelectImportantSegmentsIntelligently(selected_segments, segment_cap)
    /\ sampler_pc' = "reselected"
    /\ UNCHANGED <<segment_cap, scriptVars, filterVars, laterVars>>

SamplerNext == Select \/ SelectAgain

SamplerSpec == SamplerInit /\ [][SamplerNext]_vars

\* ------------------------------------------- the keep test on its own

FilterInit ==
    /\ segment_text \in FilterTexts
    /\ keep = "none"
    /\ filter_pc = "start"
    /\ ScriptUnused
    /\ SamplerUnused
    /\ LaterUnused

\* _should_keep_segment_fallback(segment)
ShouldKeep ==
    /\ filter_pc = "start"
    /\ keep' = ShouldKeepSegmentFallback(segment_text)
    /\ filter_pc' = "decided"
    /\ UNCHANGED <<segment_text, scriptVars, samplerVars, laterVars>>

FilterNext == ShouldKeep

FilterSpec == FilterInit /\ [][FilterNext]_vars

\* ------------------------------------------------ an export on its own

\* Source times of the segments tried, in ticks: two long ones, one of
\* 0.125 s, one of 0.0625 s and one that ends before it starts.
ExportTimes == {<<0, 8>>, <<16, 40>>, <<8, 10>>, <<10, 11>>, <<12, 11>>}

ExportSegments ==
    {[keep |-> k, start_time |-> t[1], end_time |-> t[2]] :
        k \in BOOLEAN, t \in ExportTimes}

ExportScripts ==
    UNION {[1..n -> ExportSegments] : n \in 0..MaxExportSegments}

\* Video files, each present on disk or not.
VideoPathInputs ==
    UNION {[1..n -> {[exists |-> e] : e \in BOOLEAN}] : n \in 0..MaxVideoPaths}

\* The default frame rate and a low one, at which a valid segment can span
\* no whole frame.
FrameRates == {24, 4}

ExportInit ==
    /\ xml_script \in ExportScripts
    /\ video_paths \in VideoPathInputs
    /\ fps \in FrameRates
    /\ xml_file = NoFile
    /\ exported = FALSE
    /\ xml_pc = "called"
    /\ EarlierUnused
    /\ AngleUnused
    /\ PipelineUnused
    /\ WindowUnused

\* export_script runs to its return; every exception, the two ValueErrors
\* and a failure of _save_xml included, is caught and answered with False.
ExportScript ==
    /\ xml_pc = "called"
    /\ xml_pc' = "returned"
    /\ IF ExportRejected(xml_script, video_paths)
       THEN xml_file' = NoFile /\ exported' = FALSE
       ELSE \E saved \in BOOLEAN :
               /\ exported' = saved
               /\ xml_file' = IF saved
                              THEN XmlContent(xml_script, video_paths, fps)
                              ELSE NoFile
    /\ UNCHANGED <<xml_script, video_paths, fps, earlierVars, angleVars,
                   pipelineVars, windowVars>>

ExportNext == ExportScript

ExportSpec == ExportInit /\ [][ExportNext]_vars

\* --------------------------------------- the smart strategy on its own

\* Cuts tried: kept ones of two speakers, one of them important content,
\* and a removed one; none has a camera yet.
CutKindsTried ==
    {[action |-> "keep", speaker |-> "A", content_type |-> "supporting",
      camera_id |-> "None"],
     [action |-> "speed_up", speaker |-> "B", content_type |-> "supporting",
      camera_id |-> "None"],
     [action |-> "keep", speaker |-> "A", content_type |-> "main_point",
      camera_id |-> "None"],
     [action |-> "remove", speaker |-> "B", content_type |-> "supporting",
      camera_id |-> "None"]}

EditScripts == UNION {[1..n -> CutKindsTried] : n \in 0..MaxCuts}

CameraNames == <<"Camera_1", "Camera_2", "Camera_3", "Camera_4", "Camera_5">>

CameraLists == {SubSeq(CameraNames, 1, n) : n \in 2..MaxCameras}

Configs ==
    [max_segments_per_camera : 1..MaxPerCamera,
     prefer_speaker_switches : BOOLEAN,
     prefer_content_switches : BOOLEAN,
     avoid_ping_pong : BOOLEAN]

AngleInit ==
    /\ edit_cuts \in EditScripts
    /\ camera_ids \in CameraLists
    /\ config \in Configs
    /\ switch_log = <<>>
    /\ angle_pc = "called"
    /\ EarlierUnused
    /\ ExportUnused
    /\ PipelineUnused
    /\ WindowUnused

\* _assign_smart runs to its return
AssignSmart ==
    /\ angle_pc = "called"
    /\ angle_pc' = "returned"
    /\ edit_cuts' =
          WithCameras(edit_cuts,
                      AssignSmartLoop(config, edit_cuts, camera_ids).assigned)
    /\ switch_log' = AssignSmartLoop(config, edit_cuts, camera_ids).switches
    /\ UNCHANGED <<camera_ids, config, earlierVars, exportVars, pipelineVars,
                   windowVars>>

AngleNext == AssignSmart

AngleSpec == AngleInit /\ [][AngleNext]_vars

\* ----------------------------------------------- the pipeline on its own

VideoFileLists ==
    UNION {[1..n -> {[camera_id |-> c] : c \in BOOLEAN}] : n \in 0..MaxVideoFiles}

\* Projects as create_project or a caller hands them over: not processed yet.
Projects ==
    {[loaded |-> TRUE,
      video_files |-> files,
      project_type |-> type,
      stage |-> "created",
      progress_percent |-> 0,
      transcription_result |-> FALSE,
      edit_script |-> FALSE,
      angles_assigned |-> FALSE,
      error_message |-> FALSE] :
        files \in VideoFileLists, type \in {"single", "multicam"}}

ExportOptionsTried ==
    [format : {"premiere_xml", "json", "final_cut_xml"},
     valid : BOOLEAN,
     output_path : BOOLEAN]

PipelineInit ==
    /\ project \in Projects \cup {NoProject}
    /\ progress_callback \in BOOLEAN
    /\ step_results = <<>>
    /\ processing_result = NoResult
    /\ pipeline_pc = "loaded"
    /\ EarlierUnused
    /\ ExportUnused
    /\ AngleUnused
    /\ WindowUnused

PipelineIdle ==
    UNCHANGED <<progress_callback, earlierVars, exportVars, angleVars,
                windowVars>>

\* process_project up to its first step
ProcessProject ==
    /\ pipeline_pc \in {"loaded", "exported"}
    /\ step_results' = <<>>
    /\ IF project.loaded
       THEN /\ pipeline_pc' = "transcription"
            /\ UNCHANGED processing_result
       ELSE /\ pipeline_pc' = "processed"
            /\ processing_result' = ErrorResult("failed", "ValueError")
    /\ UNCHANGED project
    /\ PipelineIdle

\* a step has ended: an error result is returned at once
AfterStep(step, end, next_pc) ==
    /\ project' = end.project
    /\ step_results' = Append(step_results, [step |-> step, result |-> end.result])
    /\ IF end.result.success
       THEN pipeline_pc' = next_pc /\ UNCHANGED processing_result
       ELSE pipeline_pc' = "processed" /\ processing_result' = end.result
    /\ PipelineIdle

ProcessTranscription ==
    /\ pipeline_pc = "transcription"
    /\ \E end \in ProcessTranscriptionEnds(project, progress_callback) :
          AfterStep("transcription", end, "script_generation")

ProcessScriptGeneration ==
    /\ pipeline_pc = "script_generation"
    /\ \E end \in ProcessScriptGenerationEnds(project, progress_callback) :
          AfterStep("script_generation", end,
                    IF is_multicam(project) THEN "angle_assignment"
                    ELSE "ready")

ProcessAngleAssignment ==
    /\ pipeline_pc = "angle_assignment"
    /\ \E end \in ProcessAngleAssignmentEnds(project, progress_callback) :
          AfterStep("angle_assignment", end, "ready")

\* process_project after its steps
MarkReady ==
    /\ pipeline_pc = "ready"
    /\ \E end \in MarkReadyEnds(project, progress_callback) :
          /\ project' = end.project
          /\ IF end.raised
             THEN pipeline_pc' = "process_raised" /\ UNCHANGED processing_result
             ELSE pipeline_pc' = "processed" /\ processing_result' = end.result
    /\ UNCHANGED step_results
    /\ PipelineIdle

\* export_project, before or after process_project
ExportProject ==
    /\ pipeline_pc \in {"loaded", "processed"}
    /\ \E options \in ExportOptionsTried :
       \E end \in ExportProjectEnds(project, progress_callback, options) :
          /\ project' = end.project
          /\ IF end.raised
             THEN pipeline_pc' = "export_raised" /\ UNCHANGED processing_result
             ELSE pipeline_pc' = "exported" /\ processing_result' = end.result
    /\ UNCHANGED step_results
    /\ PipelineIdle

PipelineNext ==
    \/ ProcessProject
    \/ ProcessTranscription
    \/ ProcessScriptGeneration
    \/ ProcessAngleAssignment
    \/ MarkReady
    \/ ExportProject

PipelineSpec == PipelineInit /\ [][PipelineNext]_vars

\* ------------------------------------------------------ the main window

\* The handlers of the main window run one at a time on the Tk thread; the
\* steps of a transcription thread run between and during them. The state
\* kept is what the handlers and the thread share: the two lists, the two
\* buttons, the threads and the callbacks waiting in root.after.

FileNames == <<"a.mp4", "b.mp4", "c.mp4", "d.mp4">>

Files == {FileNames[k] : k \in 1..MaxPicks}

\* what the file dialog can return: files in any order, none twice
FileSelections ==
    {sel \in UNION {[1..n -> Files] : n \in 1..MaxPicks} :
        \A i, j \in 1..Len(sel) : i # j => sel[i] # sel[j]}

\* threading.Thread.is_alive
is_alive(thread) == thread.pc # "done"

\* self.processing_thread and self.processing_thread.is_alive()
ProcessingThreadAlive ==
    threads # <<>> /\ is_alive(threads[Len(threads)])

\* the `for file_path in files` loop of add_videos
RECURSIVE Added(_, _)
Added(files, chosen) ==
    IF chosen = <<>> THEN files
    ELSE Added(IF \E k \in 1..Len(files) : files[k] = Head(chosen)
               THEN files
               ELSE Append(files, Head(chosen)),
               Tail(chosen))

\* list.pop(index), index counted from 0
Popped(files, index) ==
    SubSeq(files, 1, index) \o SubSeq(files, index + 2, Len(files))

WindowInit ==
    /\ video_files = <<>>
    /\ transcription_results = <<>>
    /\ script_button = FALSE
    /\ transcribe_button = TRUE
    /\ threads = <<>>
    /\ after_queue = <<>>
    /\ window_pc = "open"
    /\ EarlierUnused
    /\ ExportUnused
    /\ AngleUnused
    /\ PipelineUnused

WindowIdle ==
    UNCHANGED <<window_pc, earlierVars, exportVars, angleVars, pipelineVars>>

add_videos ==
    /\ window_pc = "open"
    /\ \E chosen \in FileSelections :
          video_files' = Added(video_files, chosen)
    /\ UNCHANGED <<transcription_results, script_button, transcribe_button,
                   threads, after_queue>>
    /\ WindowIdle

\* remove_video with an entry of the list selected
remove_video ==
    /\ window_pc = "open"
    /\ \E index \in 0..(Len(video_files) - 1) :
          /\ video_files' = Popped(video_files, index)
          /\ IF Popped(video_files, index) = <<>>
             THEN transcription_results' = <<>> /\ script_button' = FALSE
             ELSE UNCHANGED <<transcription_results, script_button>>
    /\ UNCHANGED <<transcribe_button, threads, after_queue>>
    /\ WindowIdle

clear_videos ==
    /\ window_pc = "open"
    /\ video_files' = <<>>
    /\ transcription_results' = <<>>
    /\ script_button' = FALSE
    /\ UNCHANGED <<transcribe_button, threads, after_queue>>
    /\ WindowIdle

\* start_transcription, reached from the button or anywhere else
start_transcription ==
    /\ window_pc = "open"
    /\ Len(threads) < MaxStarts
    /\ IF video_files = <<>> \/ ProcessingThreadAlive
       THEN UNCHANGED <<transcription_results, script_button,
                        transcribe_button, threads>>
       ELSE /\ transcription_results' = <<>>
            /\ script_button' = FALSE
            /\ threads' = Append(threads, [pc |-> "next", i |-> 0,
                                           video_path |-> "None"])
            /\ transcribe_button' = FALSE
    /\ UNCHANGED <<video_files, after_queue>>
    /\ WindowIdle

\* _transcribe_videos: the for statement takes the next entry of the list as
\* it is now, or ends the loop and hands _transcription_complete to the Tk
\* thread
ThreadNextVideo(t) ==
    /\ threads[t].pc = "next"
    /\ IF threads[t].i < Len(video_files)
       THEN /\ threads' = [threads EXCEPT
                              ![t].pc = "transcribe",
                              ![t].video_path = video_files[threads[t].i + 1],
                              ![t].i = threads[t].i + 1]
            /\ UNCHANGED after_queue
       ELSE /\ threads' = [threads EXCEPT ![t].pc = "done"]
            /\ after_queue' = Append(after_queue, "_transcription_complete")
    /\ UNCHANGED <<video_files, transcription_results, script_button,
                   transcribe_button>>
    /\ WindowIdle

\* _transcribe_videos: transcribe_video returns and the result is appended,
\* or it raises and _transcription_failed is handed to the Tk thread
ThreadTranscribe(t) ==
    /\ threads[t].pc = "transcribe"
    /\ \/ /\ threads' = [threads EXCEPT ![t].pc = "append"]
          /\ UNCHANGED after_queue
       \/ /\ threads' = [threads EXCEPT ![t].pc = "done"]
          /\ after_queue' = Append(after_queue, "_transcription_failed")
    /\ UNCHANGED <<video_files, transcription_results, script_button,
                   transcribe_button>>
    /\ WindowIdle

ThreadAppend(t) ==
    /\ threads[t].pc = "append"
    /\ transcription_results' =
          Append(transcription_results, [video |-> threads[t].video_path])
    /\ threads' = [threads EXCEPT ![t].pc = "next"]
    /\ UNCHANGED <<video_files, script_button, transcribe_button, after_queue>>
    /\ WindowIdle

\* the Tk thread runs the callback waiting longest
RunAfter ==
    /\ window_pc = "open"
    /\ after_queue # <<>>
    /\ after_queue' = Tail(after_queue)
    /\ transcribe_button' = TRUE
    /\ script_button' = IF Head(after_queue) = "_transcription_complete"
                        THEN TRUE
                        ELSE script_button
    /\ UNCHANGED <<video_files, transcription_results, threads>>
    /\ WindowIdle

WindowNext ==
    \/ add_videos
    \/ remove_video
    \/ clear_videos
    \/ start_transcription
    \/ \E t \in 1..Len(threads) : ThreadNextVideo(t)
    \/ \E t \in 1..Len(threads) : ThreadTranscribe(t)
    \/ \E t \in 1..Len(threads) : ThreadAppend(t)
    \/ RunAfter

WindowSpec == WindowInit /\ [][WindowNext]_vars

\* ------------------------------------------------------------ properties

Returned == pc = "returned"

\* The inputs the validation is to reject, stated on the arguments.
InvalidInput ==
    \/ transcriptions = <<>>
    \/ \A i \in 1..Len(user_prompt) : user_prompt[i] \in Whitespace
    \/ target_duration_minutes <= 0

\* The script came from the deterministic strategy.
ByFallback == Returned /\ ~script.metadata.ai_used

\* The script came from the delegated strategy.
ByAI == Returned /\ script.metadata.ai_used

\* The reply parsed as a JSON object.
ReplyIsObject == ai_reply.kind = "json" /\ ai_reply.json.t = "dict"

\* The reply is a JSON object lacking a required top-level key.
ReplyLacksKey ==
    /\ ReplyIsObject
    /\ \E k \in {"title", "script_text", "selected_segments"} :
          k \notin DOMAIN ai_reply.json.d

\* The reply is a JSON object with the three keys and a list of entries.
ReplyIsFull ==
    /\ ReplyIsObject
    /\ {"title", "script_text", "selected_segments"} \subseteq DOMAIN ai_reply.json.d
    /\ ai_reply.json.d.selected_segments.t = "list"

ReplyItems == ai_reply.json.d.selected_segments.l

IsNumeric(x) ==
    \/ x.t = "num"
    \/ x.t = "str" /\ Strip(x.s) # <<>>
                   /\ \A i \in 1..Len(Strip(x.s)) : IsDigit(Strip(x.s)[i])

\* An entry with the five fields, each of a type the script segment takes.
WellFormedEntry(e) ==
    /\ e.t = "dict"
    /\ {"start_time", "end_time", "content", "video", "segment_id"}
          \subseteq DOMAIN e.d
    /\ IsNumeric(e.d.start_time) /\ IsNumeric(e.d.end_time)
    /\ IsNumeric(e.d.video) /\ IsNumeric(e.d.segment_id)
    /\ e.d.content.t = "str"

WellFormedItems == SelectSeq(ReplyItems, WellFormedEntry)

NumberOf(x) == IF x.t = "num" THEN x.n ELSE ParseDigits(Strip(x.s))

\* The script's segments are the reply's well-formed entries, in reply order.
SegmentsAreWellFormedItems ==
    /\ Len(script.segments) = Len(WellFormedItems)
    /\ \A i \in 1..Len(WellFormedItems) :
          /\ script.segments[i].video_index = NumberOf(WellFormedItems[i].d.video)
          /\ script.segments[i].original_segment_id
                = NumberOf(WellFormedItems[i].d.segment_id)
          /\ script.segments[i].start_time = NumberOf(WellFormedItems[i].d.start_time)
          /\ script.segments[i].end_time = NumberOf(WellFormedItems[i].d.end_time)

\* sorted by (video_index, start_time), non-decreasing
SortedBySourceThenStart(segs) ==
    \A i, j \in 1..Len(segs) :
        i < j =>
           \/ segs[i].video_index < segs[j].video_index
           \/ /\ segs[i].video_index = segs[j].video_index
              /\ segs[i].start_time <= segs[j].start_time

\* The input segment a script segment refers to exists.
RefersToInput(seg) ==
    /\ seg.video_index \in 0..(Len(transcriptions) - 1)
    /\ seg.original_segment_id
          \in 0..(Len(transcriptions[seg.video_index + 1].segments) - 1)

InputOf(seg) ==
    transcriptions[seg.video_index + 1].segments[seg.original_segment_id + 1]

\* C1: every script returned for a pool that holds a candidate has at least
\* one segment, on the delegated path and on the fallback path (an empty
\* selection would be repaired by keeping the pool's first candidate).
C1_SegmentsNonEmpty ==
    (Returned /\ PoolSize(transcriptions) > 0) => Len(script.segments) > 0

\* C2: a script produced by the fallback has an estimated duration of at most
\* 1.1 times the target in seconds, unless the whole pool is one segment.
C2_FallbackWithinTarget ==
    (ByFallback /\ PoolSize(transcriptions) # 1)
        => script.estimated_duration_seconds * 10
              <= 11 * (target_duration_minutes * 60)

\* C3: once the inputs have passed validation the call never raises: no
\* exception leaves it, every failure of the delegated strategy (transport,
\* non-JSON text, a missing key, an exception in the conversion) is followed
\* by the fallback, and what is returned is a GeneratedScript.
C3_NeverRaisesPastValidation ==
    /\ ~InvalidInput => (pc # "raised" /\ error = "none")
    /\ Returned => /\ "segments" \in DOMAIN script
                   /\ "ai_used" \in DOMAIN script.metadata
    /\ (ai_reply.kind \in {"api_error", "not_json"} \/ ReplyLacksKey)
          => /\ pc \in {"fallback", "returned"}
             /\ Returned => calls = <<"ai", "fallback">>
    /\ (Returned /\ calls = <<"ai", "fallback">>) => ~script.metadata.ai_used

\* A transport failure of the delegated call, answered with a script.
C3_Witness == Returned /\ ai_reply.kind = "api_error" /\ calls = <<"ai", "fallback">>

\* C4: in one invocation the delegated strategy runs at most once, the
\* fallback runs at most once, and the delegated strategy never runs after
\* the fallback: the strategies run are none, one of them, or the delegated
\* one followed by the fallback.
C4_StrategiesRunOnce ==
    calls \in {<<>>, <<"ai">>, <<"fallback">>, <<"ai", "fallback">>}

\* The fallback has run after a failed delegated attempt.
C4_Witness == Returned /\ calls = <<"ai", "fallback">>

\* C5: a reply lacking title, script_text or selected_segments is not
\* completed with defaults: the call runs the fallback and returns the
\* fallback's script, with ai_used false.
C5_MissingKeyFallsBack ==
    ReplyLacksKey =>
        /\ pc \in {"fallback", "returned"}
        /\ Returned =>
              /\ calls = <<"ai", "fallback">>
              /\ script.metadata.ai_used = FALSE
              /\ script.title = "Video Script (Auto-Generated)"
              /\ script.full_text.t = "parts"
              /\ script = Finish(GenerateFallback(transcriptions, user_prompt,
                                                  target_duration_minutes),
                                 FALSE, transcriptions, ai_enabled)

\* A reply without "title" has been answered with the fallback's script.
C5_Witness ==
    /\ Returned
    /\ ReplyLacksKey
    /\ "title" \notin DOMAIN ai_reply.json.d
    /\ Len(script.segments) > 0

\* C6: with the three top-level keys present, a malformed entry of
\* selected_segments is skipped and never makes the call fall back: the
\* delegated strategy's script is returned, ai_used true, holding the
\* well-formed entries in their order.
C6_MalformedEntriesSkipped ==
    ReplyIsFull =>
        /\ calls = <<"ai">>
        /\ Returned
        /\ script.metadata.ai_used = TRUE
        /\ SegmentsAreWellFormedItems

\* C7: an empty transcript list, an empty or whitespace-only goal, or a
\* non-positive target raises the input error at once: no strategy runs, no
\* script is produced, and nothing follows the raise.
C7_InvalidInputRaisesFirst ==
    /\ InvalidInput =>
          /\ pc \in {"start", "raised"}
          /\ calls = <<>>
          /\ ai_reply = NoReply
          /\ pc = "raised" => error = "ValueError"
    /\ pc = "raised" => ~ENABLED Next

\* A whitespace-only goal, with transcripts and a positive target, rejected.
C7_Witness ==
    /\ pc = "raised"
    /\ transcriptions # <<>>
    /\ target_duration_minutes > 0
    /\ user_prompt = <<" ">>

C9_FallbackTextExact ==
    ByFallback =>
        \A i \in 1..Len(script.segments) :
            /\ RefersToInput(script.segments[i])
            /\ script.segments[i].content = InputOf(script.segments[i]).text
            /\ script.segments[i].start_time = InputOf(script.segments[i]).start
            /\ script.segments[i].end_time = InputOf(script.segments[i]).end

\* C9, as the code has it: the text carried is the input segment's text with
\* leading and trailing whitespace removed; start, end and reference as claimed.
C9_FallbackTextStripped ==
    ByFallback =>
        \A i \in 1..Len(script.segments) :
            /\ RefersToInput(script.segments[i])
            /\ script.segments[i].content = Strip(InputOf(script.segments[i]).text)
            /\ script.segments[i].start_time = InputOf(script.segments[i]).start
            /\ script.segments[i].end_time = InputOf(script.segments[i]).end

\* A fallback segment from the second transcript whose text was trimmed.
C9_Witness ==
    /\ ByFallback
    /\ \E i \in 1..Len(script.segments) :
          /\ script.segments[i].video_index = 1
          /\ RefersToInput(script.segments[i])
          /\ script.segments[i].content # InputOf(script.segments[i]).text

\* C10: the estimated duration of every returned script is the sum of
\* end - start over the segments the script holds, on both paths.
C10_EstimateIsSumOfSegments ==
    Returned => script.estimated_duration_seconds = SumDurations(script.segments)

\* A fallback script the duration cut has shortened.
C10_Witness ==
    /\ ByFallback
    /\ 0 < Len(script.segments)
    /\ Len(script.segments) < Len(FallbackKept(transcriptions))
\* C16: when the whole pool is one segment and the deterministic strategy
\* produced the script, the script keeps exactly that segment, whatever its
\* text and the target, and estimated_duration_seconds is its duration.
C16_SingleSegmentKept ==
    (ByFallback /\ PoolSize(transcriptions) = 1) =>
        /\ Len(script.segments) = 1
        /\ \E v \in 1..Len(transcriptions) :
              /\ Len(transcriptions[v].segments) = 1
              /\ script.estimated_duration_seconds
                    = transcriptions[v].segments[1].end
                        - transcriptions[v].segments[1].start

\* C17: every segment of every returned script ends after it starts,
\* whichever strategy produced it.
C17_SegmentsEndAfterStart ==
    Returned =>
        \A k \in 1..Len(script.segments) :
            script.segments[k].end_time > script.segments[k].start_time

\* C18: metadata.ai_used is true exactly when the returned script was
\* produced by the delegated strategy and false exactly when the
\* deterministic strategy produced it (capability absent, or the delegated
\* attempt failed); a failed delegated attempt shows nowhere else: no
\* exception leaves the call once a strategy has run.
C18_AIUsedTellsTheStrategy ==
    /\ Returned =>
          /\ script.metadata.ai_used \in BOOLEAN
          /\ script.metadata.ai_used <=> calls = <<"ai">>
          /\ ~script.metadata.ai_used
                <=> calls \in {<<"fallback">>, <<"ai", "fallback">>}
          /\ script.metadata.ai_used
                <=> "fallback_used" \notin DOMAIN script.metadata
    /\ calls # <<>> => (pc # "raised" /\ error = "none")

\* C18 witness: the capability is available, its attempt failed and the
\* fallback's script is returned with ai_used false.
C18_Witness ==
    /\ Returned /\ ai_enabled
    /\ ReplyLacksKey
    /\ calls = <<"ai", "fallback">>
    /\ script.metadata.ai_used = FALSE

\* ----------------------------------------------- properties: the keep test

Decided == filter_pc = "decided"

\* the text as the keep test reads it
Normal(raw) == Strip(Lower(raw))

IsQuestion(raw) == EndsWith(Normal(raw), "?")

HasKeyword(raw) ==
    \E k \in 1..Len(ImportantWords) : Contains(Normal(raw), ImportantWords[k])

\* the words of the text that are stoplist entries
StoplistWords(raw) ==
    Cardinality({i \in 1..Len(Normal(raw)) :
        /\ (i = 1 \/ Normal(raw)[i-1] \in Whitespace)
        /\ \E k \in 1..Len(FillerWords) :
              /\ i + Len(FillerWords[k]) - 1 <= Len(Normal(raw))
              /\ SubSeq(Normal(raw), i, i + Len(FillerWords[k]) - 1)
                    = FillerWords[k]
              /\ \/ i + Len(FillerWords[k]) - 1 = Len(Normal(raw))
                 \/ Normal(raw)[i + Len(FillerWords[k])] \in Whitespace})

\* C19: a candidate (of ten characters or more) that ends with a question
\* mark or contains an importance keyword is kept, whatever its filler-word
\* density.
C19_QuestionsAndKeywordsKept ==
    (Decided /\ Len(Normal(segment_text)) >= 10
        /\ (IsQuestion(segment_text) \/ HasKeyword(segment_text)))
      => keep = TRUE

\* C20: a candidate with no question mark and no importance keyword is kept
\* only if its filler-word density, stoplist words over words, is strictly
\* below 30%.
C20_KeptOnlyBelowThirtyPercent ==
    (Decided /\ ~IsQuestion(segment_text) /\ ~HasKeyword(segment_text)
        /\ keep = TRUE)
      => StoplistWords(segment_text) * 10 < 3 * WordCount(Normal(segment_text))

\* the timestamped line _generate_fallback writes for a script segment
LineOf(seg) ==
    [part |-> "line",
     minutes |-> seg.start_time \div 60,
     seconds |-> seg.start_time % 60,
     text |-> seg.content]

\* the timestamped lines of the fallback's full_text, in order
LinesOfFullText ==
    SelectSeq(script.full_text.parts, LAMBDA part : part.part = "line")

\* the kept total exceeds 120% of the target
KeptExceedsTolerance ==
    SumDurations(FallbackKept(transcriptions)) * 10
        > target_duration_minutes * 60 * 12

\* C22: whenever the keep-list's total duration exceeds 120% of the target,
\* the fallback's segments are a non-empty prefix of the keep-list whose
\* total duration does not exceed 110% of the target, or the first segment
\* alone.
C22_CutIsPrefixWithinTolerance ==
    (ByFallback /\ KeptExceedsTolerance) =>
        /\ Len(script.segments) >= 1
        /\ Len(script.segments) <= Len(FallbackKept(transcriptions))
        /\ script.segments
              = SubSeq(FallbackKept(transcriptions), 1, Len(script.segments))
        /\ \/ Len(script.segments) = 1
           \/ SumDurations(script.segments) * 10
                 <= target_duration_minutes * 60 * 11

\* C23: on the fallback path full_text holds one timestamped line for each
\* segment of the returned segments list, in order, and for no other segment.
C23_FullTextLinesAreTheSegments ==
    ByFallback =>
        LinesOfFullText = [k \in 1..Len(script.segments) |->
                              LineOf(script.segments[k])]

\* the metadata entries the code writes, none of which is a duration difference
OtherMetadataKeys ==
    {"ai_model", "video_count", "compression_ratio", "fallback_used",
     "generation_time_seconds",
     "ai_used", "model_used", "total_original_segments", "segments_in_script"}

\* the delegated selection is more than 20% off the target
OffTarget ==
    \/ script.estimated_duration_seconds * 10 > target_duration_minutes * 60 * 12
    \/ script.estimated_duration_seconds * 10 < target_duration_minutes * 60 * 8

\* C24: a delegated selection that is off the target is returned as it is,
\* with ai_used true, and the difference between the estimated and the target
\* duration is recorded in metadata.
C24_OffTargetKeptAndRecorded ==
    (Returned /\ calls = <<"ai">> /\ OffTarget) =>
        /\ script.metadata.ai_used
        /\ SegmentsAreWellFormedItems
        /\ DOMAIN script.metadata \ OtherMetadataKeys # {}

\* ------------------------------------------------ properties: the sampler

Sampled == sampler_pc = "selected"

\* the pool exceeds the cap
Oversized == Len(segment_pool) > segment_cap

\* the selection holds this candidate of the pool
Holds(selection, seg) == \E k \in 1..Len(selection) : selection[k] = seg

\* the place of a candidate in the pool (its video and segment_id name it)
PoolPosition(seg) ==
    CHOOSE i \in 1..Len(segment_pool) : segment_pool[i] = seg

\* the sample as it stands when the content-type swaps begin
BeforeBoost ==
    WithFirstAndLast(StrideSelection(segment_pool, segment_cap),
                     segment_pool, segment_cap)

\* the places of the sample whose entry the swaps changed
ReplacedPlaces ==
    {k \in 1..Len(selected_segments) : BeforeBoost[k] # selected_segments[k]}

\* floor(i * n / K)
FloorStride(i) == (i * Len(segment_pool)) \div segment_cap

\* C11: a pool of at most K candidates comes back as it went in, same
\* candidates in the same order; so a second sampling of what the sampler
\* returned gives it back unchanged.
C11_SmallPoolReturnedUnchanged ==
    /\ (Sampled /\ ~Oversized) => selected_segments = segment_pool
    /\ sampler_pc = "reselected" => selected_segments = segment_pool

\* C11 witness: a pool of exactly K candidates, two of them alike, sampled.
C11_Witness ==
    /\ Sampled
    /\ Len(segment_pool) = segment_cap
    /\ segment_cap >= 4
    /\ \E i, j \in 1..Len(segment_pool) :
          i < j /\ SameTextAndStart(segment_pool[i], segment_pool[j])
    /\ selected_segments = segment_pool

\* C12 as stated: a pool of n > K candidates gives exactly K, and before the
\* first/last fix-up and the swaps the i-th is pool element floor(i*n/K).
C12_ExactlyCapAtFloorStride ==
    (Sampled /\ Oversized) =>
        /\ Len(selected_segments) = segment_cap
        /\ Len(StrideSelection(segment_pool, segment_cap)) = segment_cap
        /\ \A i \in 0..(segment_cap - 1) :
              StrideSelection(segment_pool, segment_cap)[i + 1]
                 = segment_pool[FloorStride(i) + 1]

\* C12, amended: a pool of n > K candidates gives exactly K, and before the
\* first/last fix-up and the swaps the i-th is pool element int(i * (n/K)) of
\* double arithmetic: floor(i*n/K), or one below it where i*n/K is a whole
\* number that the rounded product falls short of.
C12_ExactlyCapAtFloatStride ==
    (Sampled /\ Oversized) =>
        /\ Len(selected_segments) = segment_cap
        /\ Len(StrideSelection(segment_pool, segment_cap)) = segment_cap
        /\ \A i \in 0..(segment_cap - 1) :
              \/ StrideSelection(segment_pool, segment_cap)[i + 1]
                    = segment_pool[FloorStride(i) + 1]
              \/ /\ i > 0
                 /\ (i * Len(segment_pool)) % segment_cap = 0
                 /\ StrideSelection(segment_pool, segment_cap)[i + 1]
                       = segment_pool[FloorStride(i)]

\* C12 witness: an oversized pool sampled, one index of which falls one below
\* the floor.
C12_Witness ==
    /\ Sampled /\ Oversized
    /\ Len(selected_segments) = segment_cap
    /\ \E i \in 1..(segment_cap - 1) :
          StrideSelection(segment_pool, segment_cap)[i + 1]
             = segment_pool[FloorStride(i)]

\* C13: whenever the pool exceeds K (K above 2, where the fix-up applies),
\* what the sampler returns holds the pool's first and last candidates,
\* whatever their content types.
C13_FirstAndLastKept ==
    (Sampled /\ Oversized /\ segment_cap > 2) =>
        /\ Holds(selected_segments, segment_pool[1])
        /\ Holds(selected_segments, segment_pool[Len(segment_pool)])

\* C14: what the sampler returns is a subsequence of the pool: the pool
\* positions of the returned candidates are strictly increasing.
C14_OutputIsSubsequence ==
    Sampled =>
        \A j, k \in 1..Len(selected_segments) :
            j < k => PoolPosition(selected_segments[j])
                        < PoolPosition(selected_segments[k])

\* C15: the swaps replace at most floor(K/4) entries of the sample; each
\* entry replaced has a low-value content type, each entry swapped in has a
\* critical content type and was not in the sample already.
C15_SwapsBoundedFillerForNewCritical ==
    (Sampled /\ Oversized) =>
        /\ Cardinality(ReplacedPlaces) <= segment_cap \div 4
        /\ \A k \in ReplacedPlaces :
              /\ BeforeBoost[k].content_type \in filler_types
              /\ selected_segments[k].content_type \in critical_types
              /\ ~Holds(BeforeBoost, selected_segments[k])

\* C21: a candidate with no question mark, no importance keyword and a
\* filler density below 30% is kept whenever it has 4 to 50 words, whatever
\* its length in characters.
C21_FourToFiftyWordsKept ==
    (Decided /\ ~IsQuestion(segment_text) /\ ~HasKeyword(segment_text)
        /\ StoplistWords(segment_text) * 10
              < 3 * WordCount(Normal(segment_text))
        /\ 4 <= WordCount(Normal(segment_text))
        /\ WordCount(Normal(segment_text)) <= 50)
      => keep = TRUE

\* ------------------------------------------------ properties: the export

ExportReturned == xml_pc = "returned"

SingleCamWritten == ExportReturned /\ exported /\ xml_file.kind = "single"

\* C25: every segment handed to XML generation is marked to keep and lasts
\* more than 0.1 s, and an export of a script with no such segment writes
\* nothing and returns False.
C25_OnlyKeptValidSegmentsExported ==
    ExportReturned =>
        /\ \A k \in 1..Len(GetValidSegments(xml_script)) :
              /\ GetValidSegments(xml_script)[k].keep
              /\ (GetValidSegments(xml_script)[k].end_time
                     - GetValidSegments(xml_script)[k].start_time) * 10
                    > TicksPerSecond
        /\ KeptAndValid(xml_script) = <<>> =>
              (~exported /\ xml_file = NoFile)

RECURSIVE SumOfClipDurations(_)
SumOfClipDurations(clips) ==
    IF clips = <<>> THEN 0
    ELSE Head(clips).duration + SumOfClipDurations(Tail(clips))

\* C26: in a single-camera export the clips tile the timeline: the first
\* starts at frame 0, each next one starts where the previous one ends, each
\* has end - start = out - in > 0, the sequence duration is the sum of the
\* clips' durations, and the audio clips carry the video clips' frame values.
C26_ClipsTileTheTimeline ==
    SingleCamWritten =>
        /\ \A k \in 1..Len(xml_file.video_clips) :
              /\ xml_file.video_clips[k].start
                    = (IF k = 1 THEN 0 ELSE xml_file.video_clips[k - 1].end)
              /\ xml_file.video_clips[k].end - xml_file.video_clips[k].start
                    = xml_file.video_clips[k].out - xml_file.video_clips[k].in
              /\ xml_file.video_clips[k].end > xml_file.video_clips[k].start
              /\ xml_file.video_clips[k].duration
                    = xml_file.video_clips[k].end
                         - xml_file.video_clips[k].start
        /\ xml_file.duration
              = SumOfClipDurations(xml_file.video_clips)
        /\ xml_file.audio_clips = xml_file.video_clips
        /\ {xml_file.video_clips[k].id : k \in 1..Len(xml_file.video_clips)}
              = {i \in 1..Len(GetValidSegments(xml_script)) :
                    Frames(GetValidSegments(xml_script)[i].end_time, fps)
                       > Frames(GetValidSegments(xml_script)[i].start_time, fps)}

\* a single-camera export of two clips with a skipped segment between them
C26_Witness ==
    /\ SingleCamWritten
    /\ Len(xml_file.video_clips) = 2
    /\ xml_file.video_clips[2].id = 3
    /\ xml_file.video_clips[2].start > 0

\* ------------------------------------- properties: the smart strategy

Assigned == angle_pc = "returned"

\* kept cuts j+1 .. j+len (in kept order) were assigned with no switch
\* between them
RunWithoutSwitch(j, len) ==
    /\ j + len <= Len(switch_log)
    /\ \A k \in (j + 2)..(j + len) : ~should_switch(switch_log[k])

\* the longest run the configuration allows: a switch on the cut right
\* after a switch is suppressed when ping-pong avoidance is on
LongestRun ==
    IF config.avoid_ping_pong /\ config.max_segments_per_camera = 1
    THEN 2
    ELSE config.max_segments_per_camera

\* the camera ids of the kept cuts, in order
KeptCameras == [j \in 1..Len(kept_cuts(edit_cuts)) |->
                   kept_cuts(edit_cuts)[j].camera_id]

SwitchesChangeCamera ==
    \A k \in 2..Len(switch_log) :
        should_switch(switch_log[k]) <=> KeptCameras[k] # KeptCameras[k - 1]

\* C27 as stated: no more than max_segments_per_camera consecutive kept
\* cuts are assigned without a camera switch between them, and each switch
\* moves to a different camera.
C27_SwitchAfterMaxSegments ==
    Assigned =>
        /\ \A j \in 0..Len(switch_log) :
              ~RunWithoutSwitch(j, config.max_segments_per_camera + 1)
        /\ SwitchesChangeCamera

\* C27 amended: no more than max_segments_per_camera consecutive kept cuts
\* are assigned without a camera switch between them, except that with
\* ping-pong avoidance on and max_segments_per_camera = 1 a run has up to 2
\* cuts; each switch moves to a different camera.
C27_SwitchAfterMaxSegmentsOrPingPong ==
    Assigned =>
        /\ \A j \in 0..Len(switch_log) : ~RunWithoutSwitch(j, LongestRun + 1)
        /\ SwitchesChangeCamera

\* with max_segments_per_camera = 1 and ping-pong avoidance on, a switch for
\* "max_segments_reached" was made and two cuts in a row kept one camera
C27_Witness ==
    /\ Assigned
    /\ config.avoid_ping_pong
    /\ config.max_segments_per_camera = 1
    /\ \E j \in 0..Len(switch_log) : RunWithoutSwitch(j, 2)
    /\ \E k \in 2..Len(switch_log) : switch_log[k] = "max_segments_reached"

\* ---------------------------------------------- properties: the pipeline

Steps == <<"transcription", "script_generation", "angle_assignment">>

\* process_project has returned a result for a loaded project
Processed == pipeline_pc = "processed" /\ project.loaded

\* the steps run so far are the first steps of the order, each after the
\* success of the one before, the third only in a multicam project
StepsInOrder ==
    /\ Len(step_results) <= Len(Steps)
    /\ \A k \in 1..Len(step_results) :
          /\ step_results[k].step = Steps[k]
          /\ k < Len(step_results) => step_results[k].result.success
          /\ k = 3 => is_multicam(project)

LastStepFailed ==
    /\ step_results # <<>>
    /\ ~step_results[Len(step_results)].result.success

\* C28: process_project runs transcription, script generation and (in a
\* multicam project) angle assignment in that order, each only after the
\* success of the one before; the first failing step's result is returned
\* unchanged; process_project never raises; on success the stage is
\* READY_FOR_REVIEW at 100%.
C28_StepsInOrderAndNeverRaises ==
    /\ pipeline_pc # "process_raised"
    /\ project.loaded => StepsInOrder
    /\ (Processed /\ LastStepFailed) =>
           processing_result = step_results[Len(step_results)].result
    /\ (Processed /\ processing_result.success) =>
           /\ Len(step_results) = (IF is_multicam(project) THEN 3 ELSE 2)
           /\ ~LastStepFailed
           /\ project.stage = "ready_for_review"
           /\ project.progress_percent = 100

\* C29: whenever process_project or export_project returns an unsuccessful
\* result for a loaded project, the project's stage is FAILED.
C29_FailedStageOnEveryError ==
    (pipeline_pc \in {"processed", "exported"} /\ project.loaded
        /\ ~processing_result.success)
      => project.stage = "failed"

\* ------------------------------------------- properties: the main window

AliveThreads == {t \in 1..Len(threads) : is_alive(threads[t])}

ResultsMatchVideos ==
    /\ Len(transcription_results) = Len(video_files)
    /\ \A k \in 1..Len(video_files) :
          transcription_results[k].video = video_files[k]

\* C30: at most one transcription thread is alive at a time, and whenever
\* 'Create Script' is enabled transcription_results holds one result per
\* entry of video_files, in the same order.
C30_OneThreadAndResultsMatchVideos ==
    /\ Cardinality(AliveThreads) <= 1
    /\ script_button => ResultsMatchVideos

====
